---- MODULE Spec2Model ----
(***************************************************************************)
(* founders-brain: transcript ingestion over the knowledge_base table, the  *)
(* chunkers, and the query endpoint of the chat route.                     *)
(*                                                                         *)
(* The model follows scripts/ingest_files.ts (in src/scripts/              *)
(* convert_txt.ts from line 446 on): main, ingestFile, chunkTranscript,    *)
(* generateEmbeddingsWithDelay and upsertChunks.  scripts/ingest_yc.ts (in *)
(* src/scripts/check_video_ids.ts from line 48 on) has the same            *)
(* upsertChunks and the same loop in main; there a transcript that cannot  *)
(* be fetched throws where here a file that cannot be read returns null.   *)
(*                                                                         *)
(* A text is a sequence of characters; character 0 is the blank.  The      *)
(* table is a bag of rows (the generated id, url, source_type, duration    *)
(* and metadata of a row are left out).  The datastore client resolves     *)
(* every call to {data, error} and never throws; a call that answers an    *)
(* error has had no effect on the table.  embedContent throws when it      *)
(* fails.                                                                  *)
(***************************************************************************)
EXTENDS Integers, Sequences, FiniteSets, Bags, TLC

\* ------------------------------------------------------------------------
\* Bounds of the model.  CHUNK_SIZE (500 in the source) and batchSize (50 in
\* the source) are scaled down so that several chunks and several insert
\* batches arise from transcripts of a few short segments.
\* ------------------------------------------------------------------------
CHUNK_SIZE == 1
batchSize == 2
MaxFiles == 2
MaxFaults == 2

\* ------------------------------------------------------------------------
\* Texts
\* ------------------------------------------------------------------------
Blank == 0

Rep(c, n) == [i \in 1..n |-> c]

RECURSIVE TrimLeft(_)
TrimLeft(t) ==
    IF t = <<>> THEN <<>>
    ELSE IF Head(t) = Blank THEN TrimLeft(Tail(t)) ELSE t

RECURSIVE TrimRight(_)
TrimRight(t) ==
    IF t = <<>> THEN <<>>
    ELSE IF t[Len(t)] = Blank THEN TrimRight(SubSeq(t, 1, Len(t) - 1)) ELSE t

\* String.prototype.trim
Trim(t) == TrimRight(TrimLeft(t))

\* Array.prototype.join(" ")
RECURSIVE Join(_)
Join(ts) ==
    IF ts = <<>> THEN <<>>
    ELSE IF Len(ts) = 1 THEN ts[1]
    ELSE ts[1] \o <<Blank>> \o Join(Tail(ts))

\* Array.prototype.slice(-2)
SliceLast2(ts) == IF Len(ts) <= 2 THEN ts ELSE SubSeq(ts, Len(ts) - 1, Len(ts))

Min(a, b) == IF a <= b THEN a ELSE b

\* ------------------------------------------------------------------------
\* Chunker (ingest_files.ts).  A time string is held as the numbers between
\* its colons: "1:02:03" is <<1, 2, 3>>.
\* ------------------------------------------------------------------------
parseTimeToSeconds(time) ==
    IF Len(time) = 2 THEN time[1] * 60 + time[2]
    ELSE IF Len(time) = 3 THEN time[1] * 3600 + time[2] * 60 + time[3]
    ELSE 0

targetChars == CHUNK_SIZE * 4

\* The loop state of chunkTranscript before the first segment.
ChunkInit(segments) ==
    LET t0 == parseTimeToSeconds(IF segments = <<>> THEN <<0, 0>> ELSE segments[1].time)
    IN  [chunks |-> <<>>, currentChunk |-> <<>>, currentCharCount |-> 0,
         chunkStartTime |-> t0, lastSegmentTime |-> t0, chunkIndex |-> 0]

\* An iteration that leaves out the segment on which it closed a chunk
ChunkStepLosesTrigger(st, segment) ==
    LET segmentText == Trim(segment.text)
        segmentChars == Len(segmentText)
        segmentTime == parseTimeToSeconds(segment.time)
        close == st.currentCharCount + segmentChars > targetChars
                 /\ Len(st.currentChunk) > 0
        overlapText == Join(SliceLast2(st.currentChunk))
    IN  IF close
        THEN [st EXCEPT
                !.chunks = Append(@, [content |-> Join(st.currentChunk),
                                      startTime |-> st.chunkStartTime,
                                      endTime |-> st.lastSegmentTime,
                                      chunkIndex |-> st.chunkIndex]),
                !.chunkIndex = @ + 1,
                !.currentChunk = IF overlapText # <<>> THEN <<overlapText>> ELSE <<>>,
                !.currentCharCount = Len(overlapText),
                !.chunkStartTime = segmentTime]
        ELSE [st EXCEPT !.currentChunk = Append(@, segmentText),
                        !.currentCharCount = @ + segmentChars + 1,
                        !.lastSegmentTime = segmentTime]

\* One iteration of the for loop of chunkTranscript.
ChunkStep(st, segment) ==
    LET segmentText == Trim(segment.text)
        segmentChars == Len(segmentText)
        segmentTime == parseTimeToSeconds(segment.time)
        close == st.currentCharCount + segmentChars > targetChars
                 /\ Len(st.currentChunk) > 0
        overlapText == Join(SliceLast2(st.currentChunk))
        st1 == IF close
               THEN [st EXCEPT
                       !.chunks = Append(@, [content |-> Join(st.currentChunk),
                                             startTime |-> st.chunkStartTime,
                                             endTime |-> st.lastSegmentTime,
                                             chunkIndex |-> st.chunkIndex]),
                       !.chunkIndex = @ + 1,
                       !.currentChunk = IF overlapText # <<>> THEN <<overlapText>> ELSE <<>>,
                       !.currentCharCount = Len(overlapText),
                       !.chunkStartTime = segmentTime]
               ELSE st
    IN  [st1 EXCEPT !.currentChunk = Append(@, segmentText),
                    !.currentCharCount = @ + segmentChars + 1,
                    !.lastSegmentTime = segmentTime]

RECURSIVE ChunkLoop(_, _)
ChunkLoop(st, segments) ==
    IF segments = <<>> THEN st
    ELSE ChunkLoop(ChunkStep(st, Head(segments)), Tail(segments))

\* chunkTranscript without the push after the loop
chunkTranscriptNoTail(segments) == ChunkLoop(ChunkInit(segments), segments).chunks

chunkTranscript(segments) ==
    LET st == ChunkLoop(ChunkInit(segments), segments)
    IN  IF Len(st.currentChunk) > 0
        THEN Append(st.chunks, [content |-> Join(st.currentChunk),
                                startTime |-> st.chunkStartTime,
                                endTime |-> st.lastSegmentTime,
                                chunkIndex |-> st.chunkIndex])
        ELSE st.chunks

\* ------------------------------------------------------------------------
\* Chunker of ingest_yc.ts.  A segment carries offset and duration in
\* milliseconds; startTime and endTime of a chunk, seconds in the source, are
\* held in thousandths of a second.  config.chunkSize is CHUNK_SIZE.
\* ------------------------------------------------------------------------
YcChunkInit(segments) ==
    [chunks |-> <<>>, currentChunk |-> <<>>, currentCharCount |-> 0,
     chunkStartTime |-> IF segments = <<>> THEN 0 ELSE segments[1].offset,
     chunkEndTime |-> 0, chunkIndex |-> 0]

\* One iteration of the for loop
YcChunkStep(st, segment) ==
    LET segmentText == Trim(segment.text)
        segmentChars == Len(segmentText)
        close == st.currentCharCount + segmentChars > targetChars
                 /\ Len(st.currentChunk) > 0
        overlapText == Join(SliceLast2(st.currentChunk))
        st1 == IF close
               THEN [st EXCEPT
                       !.chunks = Append(@, [content |-> Join(st.currentChunk),
                                             startTime |-> st.chunkStartTime,
                                             endTime |-> st.chunkEndTime,
                                             chunkIndex |-> st.chunkIndex]),
                       !.chunkIndex = @ + 1,
                       !.currentChunk = IF overlapText # <<>> THEN <<overlapText>> ELSE <<>>,
                       !.currentCharCount = Len(overlapText),
                       !.chunkStartTime = segment.offset]
               ELSE st
    IN  [st1 EXCEPT !.currentChunk = Append(@, segmentText),
                    !.currentCharCount = @ + segmentChars + 1,
                    !.chunkEndTime = segment.offset + segment.duration]

RECURSIVE YcChunkLoop(_, _)
YcChunkLoop(st, segments) ==
    IF segments = <<>> THEN st
    ELSE YcChunkLoop(YcChunkStep(st, Head(segments)), Tail(segments))

YcChunkTranscript(segments) ==
    LET st == YcChunkLoop(YcChunkInit(segments), segments)
    IN  IF Len(st.currentChunk) > 0
        THEN Append(st.chunks, [content |-> Join(st.currentChunk),
                                startTime |-> st.chunkStartTime,
                                endTime |-> st.chunkEndTime,
                                chunkIndex |-> st.chunkIndex])
        ELSE st.chunks


\* ------------------------------------------------------------------------
\* Transcript files offered to the ingestion runs
\* ------------------------------------------------------------------------
DEFAULT_SOURCE_ORIGIN == "yc_startup_school"

Seg(time, text) == [time |-> time, text |-> text]

TEmpty == <<>>
TA == << Seg(<<0, 0>>, Rep(1, 3)) >>
TB == << Seg(<<0, 0>>, Rep(2, 5)), Seg(<<0, 7>>, Rep(2, 5)),
         Seg(<<1, 0>>, Rep(2, 5)), Seg(<<1, 2, 3>>, Rep(2, 5)) >>
Transcripts == {TEmpty, TA, TB}

\* video_id, title and source_origin of the files; "" is an absent
\* source_origin.
Sources ==
    { [video_id |-> "v1", title |-> "Startup School: v1", source_origin |-> ""],
      [video_id |-> "v1", title |-> "Talk v1", source_origin |-> "alt"],
      [video_id |-> "v2", title |-> "Talk v2", source_origin |-> ""] }

Files ==
    { [video_id |-> s.video_id, title |-> s.title, source_origin |-> s.source_origin,
       segments |-> t] : s \in Sources, t \in Transcripts }

NoFile == [video_id |-> "", title |-> "", source_origin |-> "", segments |-> <<>>]

\* .ilike("video_title", "%Startup School%") on the titles above
TitleLikeStartupSchool(title) == title \in {"Startup School: v1"}

\* ------------------------------------------------------------------------
\* Embedding model and datastore
\* ------------------------------------------------------------------------
\* embedContent(text): the vector is a function of the text alone.
generateEmbedding(text) == [of |-> text]

SourceOrigin(transcript) ==
    IF transcript.source_origin = "" THEN DEFAULT_SOURCE_ORIGIN
    ELSE transcript.source_origin

\* rows = chunks.map(...) of upsertChunks
MakeRows(chunks, embeddings, transcript) ==
    [i \in 1..Len(chunks) |->
        [content |-> chunks[i].content,
         embedding |-> embeddings[i],
         source_origin |-> SourceOrigin(transcript),
         video_id |-> transcript.video_id,
         video_title |-> transcript.title,
         start_time |-> chunks[i].startTime,
         end_time |-> chunks[i].endTime,
         chunk_index |-> chunks[i].chunkIndex,
         total_chunks |-> Len(chunks)]]

\* generateEmbeddingsWithDelay when every call succeeds
generateEmbeddingsWithDelay(texts) == [i \in 1..Len(texts) |-> generateEmbedding(texts[i])]

\* The rows upsertChunks builds for a file when chunking and embedding succeed.
ExpectedRows(f) ==
    LET cs == chunkTranscript(f.segments)
    IN  MakeRows(cs, generateEmbeddingsWithDelay([i \in 1..Len(cs) |-> cs[i].content]), f)

\* A mutant of DeleteRows: the video_id filter is dropped.
DeleteRowsAnyVideo(table, video_id, sourceOrigin) ==
    [r \in {x \in DOMAIN table : x.source_origin # sourceOrigin} |-> table[r]]

\* A mutant of DeleteRows: the source_origin filter is dropped.
DeleteRowsAnyOrigin(table, video_id, sourceOrigin) ==
    [r \in {x \in DOMAIN table : x.video_id # video_id} |-> table[r]]

\* .delete().eq("video_id", v).eq("source_origin", o), when it succeeds
DeleteRows(table, video_id, sourceOrigin) ==
    [r \in {x \in DOMAIN table :
              ~(x.video_id = video_id /\ x.source_origin = sourceOrigin)} |-> table[r]]

\* .delete().ilike("video_title", "%Startup School%"), when it succeeds
DeleteStartupSchool(table) ==
    [r \in {x \in DOMAIN table : ~TitleLikeStartupSchool(x.video_title)} |-> table[r]]

Range(s) == {s[i] : i \in DOMAIN s}

\* A mutant of InsertRows: the insert replaces the rows of the same video.
InsertRowsReplacing(table, batch) ==
    [r \in {x \in DOMAIN table :
              \A b \in Range(batch) : x.video_id # b.video_id} |-> table[r]]
        (+) SetToBag(Range(batch))

\* .insert(batch), when it succeeds
InsertRows(table, batch) == table (+) SetToBag(Range(batch))

\* rows.slice(i, i + batchSize)
Batch(rows, i) == SubSeq(rows, i + 1, Min(i + batchSize, Len(rows)))

\* The rows of the table that belong to one (source_origin, video_id).
RowsOf(table, video_id, sourceOrigin) ==
    [r \in {x \in DOMAIN table :
              x.video_id = video_id /\ x.source_origin = sourceOrigin} |-> table[r]]

\* The rows of the table that belong to any other identity.
RowsNotOf(table, video_id, sourceOrigin) ==
    [r \in {x \in DOMAIN table :
              x.video_id # video_id \/ x.source_origin # sourceOrigin} |-> table[r]]


\* ------------------------------------------------------------------------
\* One ingestion script (ingest_files.ts): main, ingestFile, upsertChunks
\* ------------------------------------------------------------------------
VARIABLES
    store,          \* the knowledge_base table, a bag of rows
    pc,             \* where main stands: "start", "loop", "embed", "upsert",
                    \* "insert", "done", "exited"
    filesN,         \* filePaths.length
    fileI,          \* index of the file the for loop of main is at
    cur,            \* transcript of the file being ingested (NoFile: none)
    chunks,         \* chunkTranscript(transcript.segments)
    embeddings,     \* the vectors generateEmbeddingsWithDelay has collected
    rows,           \* rows of upsertChunks
    batchI,         \* i of the insert loop of upsertChunks
    successCount,
    failCount,
    result,         \* outcome of the last ingestFile: "none", "running",
                    \* "true", "false", "threw"
    log,            \* what the last ingestFile and main's catch printed
    calls,          \* history: the model and datastore calls of the last ingestFile
    pre,            \* history: the table when the last ingestFile began
    faults          \* number of failures the environment has produced

\* Two upsertChunks calls running side by side on the same table
VARIABLES
    cfile,          \* the transcript each call was given
    cpc,            \* where each call stands: "idle", "upsert", "insert", "done", "threw"
    cbatch,         \* i of the insert loop of each call
    cdel,           \* history: what the delete of each call answered
    ctrace,         \* history: the datastore calls in the order they took effect
    cpre            \* history: the table before the two calls

\* One request to the query endpoint (POST of the chat route)
VARIABLES
    qpc,            \* where POST stands: "idle", "translate", "embed", "search",
                    \* "generate", "done"
    qbody,          \* the request body
    qclients,       \* getClients has created the datastore and model clients
    qattempt,       \* attempt of the withRetry loop under way
    qquery,         \* translatedQuery of generateQueryEmbedding
    qchunks,        \* chunks of POST, the matches the search returned
    qresp,          \* the response of POST (NoResponse: none yet)
    qlog,           \* history: the calls, delays and throws of the request
    qfaults         \* number of rejections the environment has produced

\* One run of a chunker on one segment list
VARIABLES
    kin,            \* the script and the segment list given to its chunkTranscript
    kout            \* the chunks it returned (NotChunked: not run yet)

\* One call of parseTimeToSeconds on one time string
VARIABLES
    tin,            \* the string given (NoTime: none)
    tout            \* what the call returned (NotParsed: not called yet)

\* One call of parseTranscriptText of the converter (convert_txt.ts)
VARIABLES
    nlines,         \* lines: content.split("\n") (<<>>: no content given)
    nread,          \* number of lines the for loop has been through
    inHeader,
    headerEnded,
    currentTime,    \* the pending bare timestamp (NullTime: null)
    headerLines,
    nsegments,      \* segments
    nmetadata       \* metadata

\* One call of generateEmbeddings (lib/gemini.ts) or of
\* generateEmbeddingsWithDelay (the ingestion scripts)
VARIABLES
    emode,          \* which of the two functions is called ("none": neither)
    etexts,         \* texts
    epc,            \* where the call stands: "idle", "loop", "await", "delay",
                    \* "returned", "threw"
    ei,             \* i of the for loop
    eresults,       \* what the embed calls under way have answered, by place
    earrived,       \* history: the places in texts in the order their calls resolved
    eout            \* embeddings

\* The home page with its Chat component (HomePage, Chat)
VARIABLES
    ui              \* the state of the two components: inputValue and autoSubmit
                    \* of HomePage; messages, isLoading and prevAutoSubmitRef
                    \* of Chat; rendered, the values the last render closed
                    \* over; effectPending, the auto-submit effect is due;
                    \* inFlight, the questions of the requests not settled;
                    \* history: accepted and settled, the numbers of
                    \* submissions taken and of requests settled

seqLocals == <<pc, filesN, fileI, cur, chunks, embeddings, rows, batchI,
               successCount, failCount, result, log, calls, pre, faults>>

concVars == <<cfile, cpc, cbatch, cdel, ctrace, cpre>>

queryVars == <<qpc, qbody, qclients, qattempt, qquery, qchunks, qresp, qlog, qfaults>>

chunkerVars == <<kin, kout>>

timeVars == <<tin, tout>>

normVars == <<nlines, nread, inHeader, headerEnded, currentTime, headerLines, nsegments, nmetadata>>

embedVars == <<emode, etexts, epc, ei, eresults, earrived, eout>>

chatVars == <<ui>>

\* What the actions of the ingestion script leave alone.
notSeq == <<concVars, queryVars, chunkerVars, timeVars, normVars, embedVars, chatVars>>

\* What the actions of the side-by-side calls leave alone.
notConc == <<seqLocals, queryVars, chunkerVars, timeVars, normVars, embedVars, chatVars>>

\* What the actions of the query endpoint leave alone.
notQuery == <<store, seqLocals, concVars, chunkerVars, timeVars, normVars, embedVars, chatVars>>

\* What the run of a chunker leaves alone.
notChunker == <<store, seqLocals, concVars, queryVars, timeVars, normVars, embedVars, chatVars>>

\* What a call of parseTimeToSeconds leaves alone.
notTime == <<store, seqLocals, concVars, queryVars, chunkerVars, normVars, embedVars, chatVars>>

\* What the normalizer leaves alone.
notNorm == <<store, seqLocals, concVars, queryVars, chunkerVars, timeVars, embedVars, chatVars>>

\* What a call of generateEmbeddings leaves alone.
notEmbed == <<store, seqLocals, concVars, queryVars, chunkerVars, timeVars, normVars, chatVars>>

\* What the home page and its Chat component leave alone.
notChat == <<store, seqLocals, concVars, queryVars, chunkerVars, timeVars, normVars, embedVars>>

vars == <<store, seqLocals, concVars, queryVars, chunkerVars, timeVars, normVars, embedVars, chatVars>>

Call(op, ok, at) == [op |-> op, ok |-> ok, at |-> at]

MayFail == faults < MaxFaults

Procs == {1, 2}

\* No side-by-side call is under way.
ConcIdle ==
    /\ cfile = [p \in Procs |-> NoFile]
    /\ cpc = [p \in Procs |-> "idle"]
    /\ cbatch = [p \in Procs |-> 0]
    /\ cdel = [p \in Procs |-> "none"]
    /\ ctrace = <<>>
    /\ cpre = EmptyBag

\* No request has reached the query endpoint.
NoBody == [none |-> TRUE]
NoResponse == [none |-> TRUE]

QueryIdle ==
    /\ qpc = "idle"
    /\ qbody = NoBody
    /\ qclients = FALSE
    /\ qattempt = 0
    /\ qquery = <<>>
    /\ qchunks = <<>>
    /\ qresp = NoResponse
    /\ qlog = <<>>
    /\ qfaults = 0

\* No chunker has been given a segment list.
NoInput == [script |-> "none", segments |-> <<>>]
NotChunked == [none |-> TRUE]

ChunkerIdle ==
    /\ kin = NoInput
    /\ kout = NotChunked

\* parseTimeToSeconds has not been given a string.
NoTime == [none |-> TRUE]
NotParsed == [none |-> TRUE]

TimeIdle ==
    /\ tin = NoTime
    /\ tout = NotParsed

\* The normalizer has not been given a content.
NullTime == <<>>
EmptyMetadata == [k \in {} |-> <<>>]

NormIdle ==
    /\ nlines = <<>>
    /\ nread = 0
    /\ inHeader = FALSE
    /\ headerEnded = FALSE
    /\ currentTime = NullTime
    /\ headerLines = <<>>
    /\ nsegments = <<>>
    /\ nmetadata = EmptyMetadata

\* No embedding of a list of texts is under way.
EmbedIdle ==
    /\ emode = "none"
    /\ etexts = <<>>
    /\ epc = "idle"
    /\ ei = 0
    /\ eresults = <<>>
    /\ earrived = <<>>
    /\ eout = <<>>

\* The page as mounted: nothing typed, nothing selected, no message.
MountedUi ==
    [inputValue |-> <<>>, autoSubmit |-> FALSE, messages |-> <<>>, isLoading |-> FALSE,
     prevAutoSubmitRef |-> FALSE,
     rendered |-> [inputValue |-> <<>>, autoSubmit |-> FALSE, isLoading |-> FALSE],
     effectPending |-> FALSE, inFlight |-> <<>>, accepted |-> 0, settled |-> 0]

ChatIdle == ui = MountedUi

\* The script has not been started.
SeqIdle ==
    /\ pc = "start"
    /\ filesN = 0
    /\ fileI = 0
    /\ cur = NoFile
    /\ chunks = <<>>
    /\ embeddings = <<>>
    /\ rows = <<>>
    /\ batchI = 0
    /\ successCount = 0
    /\ failCount = 0
    /\ result = "none"
    /\ log = <<>>
    /\ calls = <<>>
    /\ pre = EmptyBag
    /\ faults = 0

SeqInit ==
    /\ store = EmptyBag
    /\ SeqIdle
    /\ ConcIdle
    /\ QueryIdle
    /\ ChatIdle
    /\ EmbedIdle
    /\ NormIdle
    /\ TimeIdle
    /\ ChunkerIdle

\* main up to the for loop: the clean-up delete (its outcome is not looked
\* at) and the list of files; with no file the process exits.
MainStart ==
    /\ UNCHANGED notSeq
    /\ pc = "start"
    /\ \E cleanupOk \in BOOLEAN :
         /\ cleanupOk \/ MayFail
         /\ store' = IF cleanupOk THEN DeleteStartupSchool(store) ELSE store
         /\ faults' = IF cleanupOk THEN faults ELSE faults + 1
    /\ \E n \in 0..MaxFiles :
         /\ filesN' = n
         /\ pc' = IF n = 0 THEN "exited" ELSE "loop"
    /\ fileI' = 0
    /\ successCount' = 0
    /\ failCount' = 0
    /\ UNCHANGED <<cur, chunks, embeddings, rows, batchI, result, log, calls, pre>>

\* What main does when ingestFile returned false or threw.
FileFailed(how, printed) ==
    /\ result' = how
    /\ log' = log \o printed
    /\ failCount' = failCount + 1
    /\ fileI' = fileI + 1
    /\ pc' = "loop"

\* What main does when ingestFile returned true.
FileSucceeded(printed) ==
    /\ result' = "true"
    /\ log' = log \o printed \o <<[msg |-> "Completed"]>>
    /\ successCount' = successCount + 1
    /\ fileI' = fileI + 1
    /\ pc' = "loop"

\* ingestFile: readTranscriptFile returns null.
ReadFileNull ==
    /\ UNCHANGED notSeq
    /\ pc = "loop" /\ fileI < filesN
    /\ MayFail
    /\ faults' = faults + 1
    /\ cur' = NoFile
    /\ chunks' = <<>> /\ embeddings' = <<>> /\ rows' = <<>> /\ batchI' = 0
    /\ calls' = <<>>
    /\ pre' = store
    /\ result' = "false"
    /\ log' = <<>>
    /\ failCount' = failCount + 1
    /\ fileI' = fileI + 1
    /\ UNCHANGED <<store, pc, filesN, successCount>>

\* ingestFile: the file is read and chunked; generateEmbeddingsWithDelay of
\* no text makes no call.
ReadFile ==
    /\ UNCHANGED notSeq
    /\ pc = "loop" /\ fileI < filesN
    /\ \E f \in Files :
         /\ cur' = f
         /\ chunks' = chunkTranscript(f.segments)
         /\ pc' = IF Len(chunkTranscript(f.segments)) = 0 THEN "upsert" ELSE "embed"
    /\ embeddings' = <<>> /\ rows' = <<>> /\ batchI' = 0
    /\ calls' = <<>>
    /\ pre' = store
    /\ result' = "running"
    /\ log' = <<[msg |-> "Segments", n |-> Len(cur'.segments)],
                [msg |-> "Created chunks", n |-> Len(chunks')]>>
    /\ UNCHANGED <<store, filesN, fileI, successCount, failCount, faults>>

\* A mutant of EmbedFail: the failure is swallowed and the vector left out.
EmbedFailSwallowed ==
    /\ UNCHANGED notSeq
    /\ pc = "embed"
    /\ MayFail
    /\ faults' = faults + 1
    /\ calls' = Append(calls, Call("embed", FALSE, Len(embeddings)))
    /\ embeddings' = Append(embeddings, [of |-> <<>>])
    /\ pc' = IF Len(embeddings) + 1 = Len(chunks) THEN "upsert" ELSE "embed"
    /\ UNCHANGED <<store, filesN, fileI, cur, chunks, rows, batchI, successCount,
                   failCount, result, log, pre>>

\* generateEmbeddingsWithDelay: the next embedContent call succeeds.
EmbedOk ==
    /\ UNCHANGED notSeq
    /\ pc = "embed"
    /\ calls' = Append(calls, Call("embed", TRUE, Len(embeddings)))
    /\ embeddings' = Append(embeddings, generateEmbedding(chunks[Len(embeddings) + 1].content))
    /\ pc' = IF Len(embeddings) + 1 = Len(chunks) THEN "upsert" ELSE "embed"
    /\ UNCHANGED <<store, filesN, fileI, cur, chunks, rows, batchI, successCount,
                   failCount, result, log, pre, faults>>

\* generateEmbeddingsWithDelay: the next embedContent call throws; the error
\* leaves ingestFile and is caught by main.
EmbedFail ==
    /\ UNCHANGED notSeq
    /\ pc = "embed"
    /\ MayFail
    /\ faults' = faults + 1
    /\ calls' = Append(calls, Call("embed", FALSE, Len(embeddings)))
    /\ FileFailed("threw", <<[msg |-> "Failed"]>>)
    /\ UNCHANGED <<store, filesN, cur, chunks, embeddings, rows, batchI,
                   successCount, pre>>

\* upsertChunks up to the insert loop: the rows are built and the delete is
\* awaited; what the delete answers is not looked at.
UpsertDelete ==
    /\ UNCHANGED notSeq
    /\ pc = "upsert"
    /\ rows' = MakeRows(chunks, embeddings, cur)
    /\ batchI' = 0
    /\ \E deleteOk \in BOOLEAN :
         /\ deleteOk \/ MayFail
         /\ store' = IF deleteOk
                     THEN DeleteRows(store, cur.video_id, SourceOrigin(cur))
                     ELSE store
         /\ faults' = IF deleteOk THEN faults ELSE faults + 1
         /\ calls' = Append(calls, Call("delete", deleteOk, 0))
    /\ IF Len(chunks) = 0
       THEN FileSucceeded(<<[msg |-> "Inserted", n |-> 0]>>)
       ELSE /\ pc' = "insert"
            /\ UNCHANGED <<result, log, successCount, fileI>>
    /\ UNCHANGED <<filesN, cur, chunks, embeddings, failCount, pre>>

\* upsertChunks: the insert of the batch at batchI succeeds.
InsertOk ==
    /\ UNCHANGED notSeq
    /\ pc = "insert"
    /\ store' = InsertRows(store, Batch(rows, batchI))
    /\ batchI' = batchI + batchSize
    /\ calls' = Append(calls, Call("insert", TRUE, batchI))
    /\ IF batchI + batchSize >= Len(rows)
       THEN FileSucceeded(<<[msg |-> "Inserted", n |-> Len(rows)]>>)
       ELSE UNCHANGED <<pc, result, log, successCount, fileI>>
    /\ UNCHANGED <<filesN, cur, chunks, embeddings, rows, failCount, pre, faults>>

\* upsertChunks: the insert of the batch at batchI answers an error, which
\* is printed and thrown; main catches and prints it.
InsertFail ==
    /\ UNCHANGED notSeq
    /\ pc = "insert"
    /\ MayFail
    /\ faults' = faults + 1
    /\ calls' = Append(calls, Call("insert", FALSE, batchI))
    /\ FileFailed("threw", <<[msg |-> "Insert error"], [msg |-> "Failed"]>>)
    /\ UNCHANGED <<store, filesN, cur, chunks, embeddings, rows, batchI,
                   successCount, pre>>

\* main after the last file: the summary.
LoopEnd ==
    /\ UNCHANGED notSeq
    /\ pc = "loop" /\ fileI = filesN
    /\ pc' = "done"
    /\ UNCHANGED <<store, filesN, fileI, cur, chunks, embeddings, rows, batchI,
                   successCount, failCount, result, log, calls, pre, faults>>

\* The script is started again on the same table.
Rerun ==
    /\ UNCHANGED notSeq
    /\ pc \in {"done", "exited"}
    /\ pc' = "start"
    /\ filesN' = 0 /\ fileI' = 0
    /\ cur' = NoFile
    /\ chunks' = <<>> /\ embeddings' = <<>> /\ rows' = <<>> /\ batchI' = 0
    /\ successCount' = 0 /\ failCount' = 0
    /\ result' = "none"
    /\ log' = <<>> /\ calls' = <<>>
    /\ pre' = store
    /\ UNCHANGED <<store, faults>>

SeqNext ==
    \/ MainStart
    \/ ReadFileNull
    \/ ReadFile
    \/ EmbedOk
    \/ EmbedFail
    \/ UpsertDelete
    \/ InsertOk
    \/ InsertFail
    \/ LoopEnd
    \/ Rerun

Init == SeqInit

Next == SeqNext

Spec == Init /\ [][Next]_vars


\* ------------------------------------------------------------------------
\* Two upsertChunks calls side by side: each awaits its delete and then its
\* insert batches, and the datastore takes the calls one at a time in any
\* order.
\* ------------------------------------------------------------------------
CRows(p) == ExpectedRows(cfile[p])

\* The table holds nothing or what one earlier complete ingestion wrote.
ConcInit ==
    /\ SeqIdle
    /\ QueryIdle
    /\ ChatIdle
    /\ EmbedIdle
    /\ NormIdle
    /\ TimeIdle
    /\ ChunkerIdle
    /\ \E f0 \in Files \cup {NoFile} : store = SetToBag(Range(ExpectedRows(f0)))
    /\ cpre = store
    /\ cfile \in [Procs -> Files]
    /\ cpc = [p \in Procs |-> "upsert"]
    /\ cbatch = [p \in Procs |-> 0]
    /\ cdel = [p \in Procs |-> "none"]
    /\ ctrace = <<>>

\* upsertChunks of call p: the delete; what it answers is not looked at.
CDelete(p) ==
    /\ cpc[p] = "upsert"
    /\ \E deleteOk \in BOOLEAN :
         /\ store' = IF deleteOk
                     THEN DeleteRows(store, cfile[p].video_id, SourceOrigin(cfile[p]))
                     ELSE store
         /\ cdel' = [cdel EXCEPT ![p] = IF deleteOk THEN "ok" ELSE "failed"]
         /\ ctrace' = Append(ctrace, [p |-> p, op |-> "delete", ok |-> deleteOk])
    /\ cpc' = [cpc EXCEPT ![p] = IF Len(CRows(p)) = 0 THEN "done" ELSE "insert"]
    /\ UNCHANGED <<cfile, cbatch, cpre>>
    /\ UNCHANGED notConc

\* upsertChunks of call p: the insert of the batch at cbatch[p] succeeds.
CInsertOk(p) ==
    /\ cpc[p] = "insert"
    /\ store' = InsertRows(store, Batch(CRows(p), cbatch[p]))
    /\ cbatch' = [cbatch EXCEPT ![p] = @ + batchSize]
    /\ ctrace' = Append(ctrace, [p |-> p, op |-> "insert", ok |-> TRUE])
    /\ cpc' = [cpc EXCEPT ![p] = IF cbatch[p] + batchSize >= Len(CRows(p))
                                 THEN "done" ELSE "insert"]
    /\ UNCHANGED <<cfile, cdel, cpre>>
    /\ UNCHANGED notConc

\* upsertChunks of call p: the insert of the batch at cbatch[p] answers an
\* error, which is thrown.
CInsertFail(p) ==
    /\ cpc[p] = "insert"
    /\ ctrace' = Append(ctrace, [p |-> p, op |-> "insert", ok |-> FALSE])
    /\ cpc' = [cpc EXCEPT ![p] = "threw"]
    /\ UNCHANGED <<store, cfile, cbatch, cdel, cpre>>
    /\ UNCHANGED notConc

ConcNext == \E p \in Procs : CDelete(p) \/ CInsertOk(p) \/ CInsertFail(p)

SpecConc == ConcInit /\ [][ConcNext]_vars

\* ------------------------------------------------------------------------
\* Properties of one ingestion script (checked under Spec)
\* ------------------------------------------------------------------------
CurRows == RowsOf(store, cur.video_id, SourceOrigin(cur))
PreRows == RowsOf(pre, cur.video_id, SourceOrigin(cur))

Issued(op) == \E i \in DOMAIN calls : calls[i].op = op
Failed(op) == \E i \in DOMAIN calls : calls[i].op = op /\ ~calls[i].ok

LastCall == calls[Len(calls)]
InsertFailed == result = "threw" /\ calls # <<>> /\ LastCall.op = "insert"

\* C1: once a source whose identity already has rows of other content in the
\* table has been ingested again (with a transcript that has segments), the
\* table holds for that identity exactly the rows of this second ingestion:
\* no row twice, no row of the first.
C1_ReingestReplaces ==
    (result = "true" /\ cur.segments # <<>> /\ PreRows # EmptyBag
        /\ PreRows # SetToBag(Range(ExpectedRows(cur))))
    => CurRows = SetToBag(Range(ExpectedRows(cur)))

\* C2: the ingestion of a transcript without segments is rejected before any
\* model or datastore call, and the rows of its identity stay as they were.
C2_EmptyRejected ==
    (result \in {"running", "true", "threw"} /\ cur.segments = <<>>)
    => (calls = <<>> /\ CurRows = PreRows /\ result # "true")

\* C3: when the delete of the existing rows fails, no insert is issued and
\* the ingestion does not end as a success.
C3_DeleteFailureStopsInsert ==
    Failed("delete") => (~Issued("insert") /\ result # "true")

\* C4: when the insert of the batch that starts at row k fails, the
\* ingestion ends with that error, no later batch is tried, and the table
\* holds for the identity exactly the first k rows of the new ingestion.
C4_PartialInsertKept ==
    InsertFailed
    => /\ ~LastCall.ok
       /\ \A i \in 1..(Len(calls) - 1) : calls[i].op = "insert" => calls[i].ok
       /\ CurRows = SetToBag(Range(SubSeq(ExpectedRows(cur), 1, LastCall.at)))

\* C5: once an embedding call of an ingestion has failed, the ingestion has
\* ended with that error, it has issued no delete and no insert, and the
\* table is the one the ingestion began with.
C5_EmbedFailureLeavesStore ==
    Failed("embed")
    => /\ result = "threw"
       /\ ~Issued("delete") /\ ~Issued("insert")
       /\ store = pre

\* C5 witness: the second chunk's embedding failed while rows of that
\* identity were stored.
C5_Witness ==
    /\ result = "threw" /\ Failed("embed") /\ Len(calls) >= 2
    /\ PreRows # EmptyBag

\* C6: after a file of the run has failed the run stands at the loop again
\* and takes the next file if there is one; and whatever the ingestion of a
\* file does or has done, the rows of every other identity are those the
\* table held when the ingestion of the file began.
C6_FailureAbortsOnlyThatSource ==
    /\ result \in {"false", "threw"}
       => /\ pc \in {"loop", "done"}
          /\ fileI < filesN => (pc = "loop" /\ ENABLED ReadFile)
    /\ (result # "none" /\ cur # NoFile)
       => RowsNotOf(store, cur.video_id, SourceOrigin(cur))
            = RowsNotOf(pre, cur.video_id, SourceOrigin(cur))

\* C6 witness: an insert failed after a part of the source was written,
\* another identity has rows, and a file is left to ingest.
C6_Witness ==
    /\ InsertFailed /\ pc = "loop" /\ fileI < filesN
    /\ CurRows # PreRows
    /\ RowsNotOf(store, cur.video_id, SourceOrigin(cur)) # EmptyBag

\* C7: after an ingestion that ended as a success the rows of its identity
\* are as many as the transcript has chunks, carry that number as
\* total_chunks and carry the chunk_index values 0..total_chunks-1.
C7_TotalChunks ==
    result = "true"
    => /\ \A r \in BagToSet(CurRows) : r.total_chunks = Len(chunks)
       /\ BagCardinality(CurRows) = Len(chunks)
       /\ {r.chunk_index : r \in BagToSet(CurRows)} = 0..(Len(chunks) - 1)

\* C8: when a batch insert fails no further batch is tried and the
\* ingestion prints how many rows were committed and how many were to be
\* written.
C8_ReportsCounts ==
    InsertFailed
    => /\ \A i \in 1..(Len(calls) - 1) : calls[i].op = "insert" => calls[i].ok
       /\ \E e \in Range(log) :
            /\ "committed" \in DOMAIN e /\ e.committed = LastCall.at
            /\ "attempted" \in DOMAIN e /\ e.attempted = Len(rows)


\* ------------------------------------------------------------------------
\* Properties of two side-by-side upsertChunks calls (checked under SpecConc)
\* ------------------------------------------------------------------------
Other(p) == CHOOSE q \in Procs : q # p

RowsOfCall(table, p) == RowsOf(table, cfile[p].video_id, SourceOrigin(cfile[p]))

\* What the table holds for the identity of call p when the call runs alone
\* and has come as far as it has: the rows from before unless its delete
\* took effect, and the batches it has inserted.
SoloRows(p) ==
    (IF cdel[p] = "ok" THEN EmptyBag ELSE RowsOfCall(cpre, p))
        (+) SetToBag(Range(SubSeq(CRows(p), 1, Min(cbatch[p], Len(CRows(p))))))

SameIdentity ==
    /\ cfile[1].video_id = cfile[2].video_id
    /\ SourceOrigin(cfile[1]) = SourceOrigin(cfile[2])

\* Both deletes took effect before any insert did.
DeletesBeforeInserts ==
    \A i, j \in DOMAIN ctrace :
        (ctrace[i].op = "delete" /\ ctrace[j].op = "insert") => i < j

\* C10: when two calls for the same identity have both deleted before
\* either inserted and both have ended with every call succeeding, the table
\* holds the rows of both for that identity: when both wrote rows, more rows
\* than the total_chunks of any of them and chunk_index 0 twice.
C10_SameSourceNotIsolated ==
    (SameIdentity /\ DeletesBeforeInserts
        /\ cpc = [p \in Procs |-> "done"] /\ cdel = [p \in Procs |-> "ok"])
    => /\ RowsOfCall(store, 1) = SetToBag(Range(CRows(1))) (+) SetToBag(Range(CRows(2)))
       /\ (Len(CRows(1)) > 0 /\ Len(CRows(2)) > 0)
          => /\ \A r \in BagToSet(RowsOfCall(store, 1)) :
                  BagCardinality(RowsOfCall(store, 1)) > r.total_chunks
             /\ BagCardinality(
                  [r \in {x \in DOMAIN RowsOfCall(store, 1) : x.chunk_index = 0}
                     |-> RowsOfCall(store, 1)[r]]) = 2

\* C10 witness: two calls for one identity with different transcripts have
\* interleaved that way and ended.
C10_Witness ==
    /\ SameIdentity /\ DeletesBeforeInserts
    /\ cpc = [p \in Procs |-> "done"] /\ cdel = [p \in Procs |-> "ok"]
    /\ Len(CRows(1)) > 0 /\ Len(CRows(2)) > 0
    /\ cfile[1].segments # cfile[2].segments
    /\ RowsOfCall(store, 1) # SetToBag(Range(CRows(1)))
    /\ RowsOfCall(store, 1) # SetToBag(Range(CRows(2)))


\* ------------------------------------------------------------------------
\* The query endpoint (POST of the chat route, src/unnamed/part_010).
\*
\* A question is a text as above; character Hangul stands for the
\* characters of the class [\u3131-\u318E\uAC00-\uD7A3].  An error message
\* and a URL are sequences of one-character strings (a longer string is a
\* run of characters the code never looks into).  A field a JSON object does
\* not carry is a field the record does not have.  Times are held in tenths
\* of a second.  The details field of the failure response, which depends on
\* NODE_ENV, is left out.
\* ------------------------------------------------------------------------
maxRetries == 3
baseDelay == 1000
MaxChunks == 3
MaxRejections == 3
MaxSegs == 5

Hangul == 7

\* String.prototype.includes
Includes(s, sub) ==
    \E i \in 0..(Len(s) - Len(sub)) : SubSeq(s, i + 1, i + Len(sub)) = sub

RECURSIVE Pow2(_)
Pow2(n) == IF n = 0 THEN 1 ELSE 2 * Pow2(n - 1)

\* The decimal digits of a natural number, as `${n}` writes them.
RECURSIVE Digits(_)
Digits(n) ==
    LET d == <<"0", "1", "2", "3", "4", "5", "6", "7", "8", "9">>
    IN  IF n < 10 THEN <<d[n + 1]>> ELSE Digits(n \div 10) \o <<d[(n % 10) + 1]>>

\* Math.floor of a time held in tenths
Floor(t) == t \div 10

\* What a model call can reject with.
QuotaStatus == [status |-> 429, message |-> <<"q", "u", "o", "t", "a">>]
QuotaMessage == [message |-> <<"[", "4", "2", "9", " ", "T", "o", "o", "]">>]
Upstream == [status |-> 500, message |-> <<"[", "5", "0", "0", "]">>]
Rejections == {QuotaStatus, QuotaMessage, Upstream}

\* new Error("Max retries exceeded")
MaxRetriesError ==
    [message |-> <<"M", "a", "x", " ", "r", "e", "t", "r", "i", "e", "s", " ",
                   "e", "x", "c", "e", "e", "d", "e", "d">>]

\* The error of a failed rpc: {message, details, hint, code}
SearchError == [message |-> <<"r", "p", "c">>, code |-> "PGRST"]

\* text() of a blocked response
BlockedError == [message |-> <<"b", "l", "o", "c", "k">>]

\* Reading a property of undefined
TypeError == [name |-> "TypeError", message |-> <<"u", "n", "d", "e", "f">>]

\* The test of the catch of withRetry.
IsRateLimitAlways(err) == TRUE

IsRateLimit(err) ==
    \/ "status" \in DOMAIN err /\ err.status = 429
    \/ /\ "message" \in DOMAIN err
       /\ err.message # <<>>
       /\ Includes(err.message, <<"4", "2", "9">>)

\* The bodies requests carry.
Bodies ==
    { [locale |-> "en"],
      [message |-> <<>>, locale |-> "en"],
      [message |-> <<Blank, Blank>>],
      [message |-> <<1, Blank, 2>>, locale |-> "en"],
      [message |-> <<Blank, Hangul, 1>>] }

\* const { message, locale = "ko" } = body
LocaleOf(body) == IF "locale" \in DOMAIN body THEN body.locale ELSE "ko"

\* !message || message.trim().length === 0
MessageMissingUntrimmed(body) ==
    \/ "message" \notin DOMAIN body
    \/ body.message = <<>>

MessageMissing(body) ==
    \/ "message" \notin DOMAIN body
    \/ body.message = <<>>
    \/ Len(Trim(body.message)) = 0

hasKorean(query) == \E i \in 1..Len(query) : query[i] = Hangul

\* What the translation call can resolve to: a text, or a response whose
\* text() throws.
Translations == { [text |-> <<Blank, 2, Blank>>], [blocked |-> TRUE] }

\* The rows match_knowledge can return.  The function of the migration has
\* no video_url column; the route's MatchResult declares one.
Http == <<"h", "t", "t", "p">>
AbsoluteUrl == <<"h", "t", "t", "p", "s", ":", "/", "/", "y", "t">>
RelativeUrl == <<"/", "w", "a", "t", "c", "h">>

Named(name) == [description |-> "d", speaker |-> [name |-> name]]
Unnamed == [description |-> "d"]

Match(video_id, similarity, start_time, metadata) ==
    [video_id |-> video_id, video_title |-> "Talk " \o video_id,
     content |-> <<1>>, start_time |-> start_time, metadata |-> metadata,
     similarity |-> similarity]

WithUrl(m, url) ==
    [f \in DOMAIN m \cup {"video_url"} |-> IF f = "video_url" THEN url ELSE m[f]]

Matches ==
    { WithUrl(Match("A", 90, 125, Named("Dalton")), RelativeUrl),
      WithUrl(Match("A", 95, 1259, Named("Michael")), AbsoluteUrl),
      WithUrl(Match("B", 85, 0, Named("")), <<>>),
      Match("B", 80, 59, Unnamed) }

RECURSIVE SeqsUpTo(_, _)
SeqsUpTo(S, n) ==
    IF n = 0 THEN {<<>>}
    ELSE LET shorter == SeqsUpTo(S, n - 1)
         IN  shorter \cup {Append(q, x) : q \in {r \in shorter : Len(r) = n - 1}, x \in S}

MatchLists == SeqsUpTo(Matches, MaxChunks)

\* chunk.metadata?.speaker?.name
HasSpeakerName(chunk) == "speaker" \in DOMAIN chunk.metadata
SpeakerName(chunk) == chunk.metadata.speaker.name

\* buildContext: one labelled block per chunk, in retrieval order
buildContext(retrieved) ==
    [i \in 1..Len(retrieved) |->
        [source |-> i,
         speaker |-> IF HasSpeakerName(retrieved[i]) /\ SpeakerName(retrieved[i]) # ""
                     THEN SpeakerName(retrieved[i]) ELSE "Speaker",
         title |-> retrieved[i].video_title,
         content |-> retrieved[i].content]]

\* uniqueVideos.set: a Map keeps its keys in the order they were first set
MapSet(map, chunk) ==
    IF \E i \in 1..Len(map) : map[i].video_id = chunk.video_id
    THEN [i \in 1..Len(map) |->
            IF map[i].video_id = chunk.video_id THEN chunk ELSE map[i]]
    ELSE Append(map, chunk)

MapGet(map, video_id) ==
    LET found == {i \in 1..Len(map) : map[i].video_id = video_id}
    IN  IF found = {} THEN <<>> ELSE <<map[CHOOSE i \in found : TRUE]>>

\* The for loop of formatSources
RECURSIVE UniqueVideos(_, _)
UniqueVideos(map, retrieved) ==
    IF retrieved = <<>> THEN map
    ELSE LET chunk == Head(retrieved)
             existing == MapGet(map, chunk.video_id)
         IN  UniqueVideos(IF existing = <<>> \/ chunk.similarity > existing[1].similarity
                          THEN MapSet(map, chunk) ELSE map,
                          Tail(retrieved))

\* The callback of the map of formatSources
SourceOf(chunk) ==
    LET youtubeUrl == IF Includes(chunk.video_url, Http) THEN chunk.video_url
                      ELSE <<"https://www.youtube.com/watch?v=", chunk.video_id>>
                           \o <<"&", "t", "=">> \o Digits(Floor(chunk.start_time))
        source == [title |-> chunk.video_title, url |-> youtubeUrl,
                   timestamp |-> chunk.start_time]
    IN  IF HasSpeakerName(chunk)
        THEN [f \in DOMAIN source \cup {"speaker"} |->
                IF f = "speaker" THEN SpeakerName(chunk) ELSE source[f]]
        ELSE source

\* formatSources returns the sources, or throws where it reads includes of a
\* video_url the chunk does not have.
formatSources(retrieved) ==
    LET unique == UniqueVideos(<<>>, retrieved)
    IN  IF \E i \in 1..Len(unique) : "video_url" \notin DOMAIN unique[i]
        THEN [threw |-> TRUE, error |-> TypeError]
        ELSE [threw |-> FALSE, sources |-> [i \in 1..Len(unique) |-> SourceOf(unique[i])]]

\* speakers of POST: the names that are not empty, in retrieval order
Speakers(retrieved) ==
    SelectSeq([i \in 1..Len(retrieved) |->
                 IF HasSpeakerName(retrieved[i]) THEN SpeakerName(retrieved[i]) ELSE ""],
              LAMBDA n : n # "")

Count(names, n) == Cardinality({i \in 1..Len(names) : names[i] = n})

\* Object.keys(counts): the names in the order they were first counted
RECURSIVE Keys(_, _)
Keys(seen, names) ==
    IF names = <<>> THEN seen
    ELSE Keys(IF \E i \in 1..Len(seen) : seen[i] = Head(names)
              THEN seen ELSE Append(seen, Head(names)),
              Tail(names))

\* reduce((a, b) => counts[a] > counts[b] ? a : b)
RECURSIVE Reduce(_, _, _)
Reduce(a, keys, names) ==
    IF keys = <<>> THEN a
    ELSE Reduce(IF Count(names, a) > Count(names, Head(keys)) THEN a ELSE Head(keys),
                Tail(keys), names)

dominantSpeaker(retrieved) ==
    LET speakers == Speakers(retrieved)
        keys == Keys(<<>>, speakers)
    IN  IF Len(speakers) > 0 THEN Reduce(Head(keys), Tail(keys), speakers)
        ELSE "YC Partner"

\* ------------------------------------------------------------------------
\* POST, generateQueryEmbedding, translateQueryForEmbedding, withRetry,
\* searchRelevantChunks and generateAnswer, one action per awaited call.
\* ------------------------------------------------------------------------
Resolved == [ok |-> TRUE]

ClientsEv == [ev |-> "getClients"]
CallEv(op, model, attempt, arg, out) ==
    [ev |-> "call", op |-> op, model |-> model, attempt |-> attempt,
     arg |-> arg, out |-> out]
DelayEv(ms) == [ev |-> "delay", ms |-> ms]
ThrowEv(err) == [ev |-> "throw", err |-> err]

\* The prompt of translateQueryForEmbedding
translatePrompt(query) == [instruction |-> "translate", query |-> query]

\* finalPrompt of generateAnswer
finalPrompt(question, context, locale, speaker) ==
    [persona |-> speaker, language |-> IF locale = "ko" THEN "ko" ELSE "en",
     context |-> context, question |-> question]

\* catch (e) { return query } of translateQueryForEmbedding
translateCatchNothing(query) == <<>>

translateCatch(query) == query

\* The answer of POST to a search without matches
NoContentAnswer(locale) ==
    IF locale = "ko" THEN "ko: no relevant content"
    ELSE "Sorry, I couldn't find relevant content."

\* The catch of POST
Catch(err) ==
    IF "status" \in DOMAIN err /\ err.status = 429
    THEN [status |-> 200, answer |-> "ko: request limit reached, retry in a minute",
          sources |-> <<>>]
    ELSE [status |-> 500, error |-> "Failed to process request"]

ModelOf(op) == IF op = "embed" THEN "text-embedding-004" ELSE "gemini-2.0-flash"

\* What the call wrapped by withRetry is given in each stage.
ArgOf(op) ==
    CASE op = "translate" -> translatePrompt(qbody.message)
      [] op = "embed" -> qquery
      [] op = "generate" -> finalPrompt(qbody.message, buildContext(qchunks),
                                         LocaleOf(qbody), dominantSpeaker(qchunks))

InRetry == qpc \in {"translate", "embed", "generate"}

\* An error leaves withRetry: translateQueryForEmbedding catches it, the
\* other stages let it reach the catch of POST.
Thrown(err) ==
    IF qpc = "translate"
    THEN /\ qquery' = translateCatch(qbody.message)
         /\ qpc' = "embed"
         /\ qattempt' = 0
         /\ UNCHANGED qresp
    ELSE /\ qresp' = Catch(err)
         /\ qpc' = "done"
         /\ UNCHANGED <<qquery, qattempt>>

\* POST up to its first model call: the check of the message, getClients and
\* the hasKorean test of translateQueryForEmbedding.
Receive ==
    /\ qpc \in {"idle", "done"}
    /\ \E body \in Bodies :
        /\ qbody' = body
        /\ IF MessageMissing(body)
           THEN /\ qresp' = [status |-> 400, error |-> "Message is required"]
                /\ qpc' = "done"
                /\ qclients' = FALSE
                /\ qlog' = <<>>
                /\ qquery' = <<>>
           ELSE /\ qresp' = NoResponse
                /\ qclients' = TRUE
                /\ qlog' = <<ClientsEv>>
                /\ IF hasKorean(body.message)
                   THEN qpc' = "translate" /\ qquery' = <<>>
                   ELSE qpc' = "embed" /\ qquery' = body.message
    /\ qattempt' = 0
    /\ qchunks' = <<>>
    /\ qfaults' = 0
    /\ UNCHANGED notQuery

\* withRetry: the wrapped call rejects.
Rejected ==
    /\ InRetry
    /\ qattempt < maxRetries
    /\ qfaults < MaxRejections
    /\ qfaults' = qfaults + 1
    /\ \E err \in Rejections :
        LET call == CallEv(qpc, ModelOf(qpc), qattempt, ArgOf(qpc), err)
        IN  IF IsRateLimit(err)
            THEN /\ qlog' = qlog \o <<call, DelayEv(baseDelay * Pow2(qattempt))>>
                 /\ qattempt' = qattempt + 1
                 /\ UNCHANGED <<qpc, qquery, qresp>>
            ELSE /\ qlog' = qlog \o <<call, ThrowEv(err)>>
                 /\ Thrown(err)
    /\ UNCHANGED <<qbody, qclients, qchunks>>
    /\ UNCHANGED notQuery

\* withRetry: the for loop ends without a return.
Exhausted ==
    /\ InRetry
    /\ qattempt = maxRetries
    /\ qlog' = Append(qlog, ThrowEv(MaxRetriesError))
    /\ Thrown(MaxRetriesError)
    /\ UNCHANGED <<qbody, qclients, qchunks, qfaults>>
    /\ UNCHANGED notQuery

\* translateQueryForEmbedding: generateContent resolves.
TranslateOk ==
    /\ qpc = "translate"
    /\ qattempt < maxRetries
    /\ \E t \in Translations :
        LET call == CallEv("translate", ModelOf("translate"), qattempt,
                           ArgOf("translate"), Resolved)
        IN  IF "text" \in DOMAIN t
            THEN /\ qlog' = Append(qlog, call)
                 /\ qquery' = Trim(t.text)
            ELSE /\ qlog' = qlog \o <<call, ThrowEv(BlockedError)>>
                 /\ qquery' = translateCatch(qbody.message)
    /\ qpc' = "embed"
    /\ qattempt' = 0
    /\ UNCHANGED <<qbody, qclients, qchunks, qresp, qfaults>>
    /\ UNCHANGED notQuery

\* generateQueryEmbedding: embedContent resolves.
QueryEmbedOk ==
    /\ qpc = "embed"
    /\ qattempt < maxRetries
    /\ qlog' = Append(qlog, CallEv("embed", ModelOf("embed"), qattempt,
                                   ArgOf("embed"), Resolved))
    /\ qpc' = "search"
    /\ qattempt' = 0
    /\ UNCHANGED <<qbody, qclients, qquery, qchunks, qresp, qfaults>>
    /\ UNCHANGED notQuery

\* chunks.length === 0
NoChunksNever(data) == FALSE

NoChunks(data) == Len(data) = 0

\* searchRelevantChunks answers data, and POST goes on to the answer or
\* returns when no chunk was found.
SearchOk ==
    /\ qpc = "search"
    /\ \E data \in MatchLists :
        /\ qlog' = Append(qlog, CallEv("search", "match_knowledge", 0,
                                       generateEmbedding(qquery), Resolved))
        /\ qchunks' = data
        /\ IF NoChunks(data)
           THEN /\ qresp' = [status |-> 200, answer |-> NoContentAnswer(LocaleOf(qbody)),
                             sources |-> <<>>]
                /\ qpc' = "done"
           ELSE /\ qpc' = "generate"
                /\ UNCHANGED qresp
    /\ qattempt' = 0
    /\ UNCHANGED <<qbody, qclients, qquery, qfaults>>
    /\ UNCHANGED notQuery

\* searchRelevantChunks answers an error and throws it.
SearchFail ==
    /\ qpc = "search"
    /\ qfaults < MaxRejections
    /\ qfaults' = qfaults + 1
    /\ qlog' = Append(qlog, CallEv("search", "match_knowledge", 0,
                                   generateEmbedding(qquery), SearchError))
    /\ qresp' = Catch(SearchError)
    /\ qpc' = "done"
    /\ UNCHANGED <<qbody, qclients, qattempt, qquery, qchunks>>
    /\ UNCHANGED notQuery

\* generateAnswer: generateContent resolves; then formatSources and the
\* response.  text() of a blocked response throws.
GenerateOk ==
    /\ qpc = "generate"
    /\ qattempt < maxRetries
    /\ \E blocked \in BOOLEAN :
        LET call == CallEv("generate", ModelOf("generate"), qattempt,
                           ArgOf("generate"), Resolved)
            formatted == formatSources(qchunks)
        IN  IF blocked
            THEN /\ qlog' = qlog \o <<call, ThrowEv(BlockedError)>>
                 /\ qresp' = Catch(BlockedError)
            ELSE IF formatted.threw
            THEN /\ qlog' = qlog \o <<call, ThrowEv(formatted.error)>>
                 /\ qresp' = Catch(formatted.error)
            ELSE /\ qlog' = Append(qlog, call)
                 /\ qresp' = [status |-> 200, answer |-> "answer",
                               sources |-> formatted.sources]
    /\ qpc' = "done"
    /\ UNCHANGED <<qbody, qclients, qattempt, qquery, qchunks, qfaults>>
    /\ UNCHANGED notQuery

QueryNext ==
    \/ Receive
    \/ Rejected
    \/ Exhausted
    \/ TranslateOk
    \/ QueryEmbedOk
    \/ SearchOk
    \/ SearchFail
    \/ GenerateOk

QueryInit ==
    /\ store = EmptyBag
    /\ SeqIdle
    /\ ConcIdle
    /\ ChunkerIdle
    /\ QueryIdle
    /\ ChatIdle
    /\ EmbedIdle
    /\ NormIdle
    /\ TimeIdle

SpecQuery == QueryInit /\ [][QueryNext]_vars

\* ------------------------------------------------------------------------
\* Properties of the query endpoint (SpecQuery)
\* ------------------------------------------------------------------------
QCalls(op) == {i \in 1..Len(qlog) : qlog[i].ev = "call" /\ qlog[i].op = op}

\* The errors that signal a rate limit
RateLimitErrors == {QuotaStatus, QuotaMessage}

RateLimited(i) == qlog[i].out \in RateLimitErrors

\* Every attempt the retry cap allows was made for op and met a rate limit.
CapExhausted(op) ==
    \A k \in 0..(maxRetries - 1) :
        \E i \in QCalls(op) : qlog[i].attempt = k /\ RateLimited(i)

ThrottledResponse ==
    [status |-> 200, answer |-> "ko: request limit reached, retry in a minute",
     sources |-> <<>>]

\* C11: when the query embedding call or the generation call has met a rate
\* limit on every attempt up to the retry cap, the endpoint answers the
\* throttling message with an empty source list under status 200.
C11_RateLimitAnswersThrottled ==
    (qpc = "done" /\ (CapExhausted("embed") \/ CapExhausted("generate")))
        => qresp = ThrottledResponse

\* The similarity search of the request answered no chunk.
EmptyRetrieval ==
    /\ qchunks = <<>>
    /\ \E i \in QCalls("search") : qlog[i].out = Resolved

GenerationModelCalls ==
    {i \in 1..Len(qlog) : qlog[i].ev = "call" /\ qlog[i].model = "gemini-2.0-flash"}

NoContentResponse ==
    [status |-> 200,
     answer |-> IF LocaleOf(qbody) = "ko" THEN "ko: no relevant content"
                ELSE "Sorry, I couldn't find relevant content.",
     sources |-> <<>>]

\* C12 as stated: after a similarity search that returned zero chunks the
\* endpoint answers the fixed no-relevant-content message with an empty
\* source list, and the generation model was not invoked by the request.
C12_EmptyRetrievalNoGenerationModel ==
    (qpc = "done" /\ EmptyRetrieval)
        => qresp = NoContentResponse /\ GenerationModelCalls = {}

\* C12 as amended: after a similarity search that returned zero chunks the
\* endpoint answers the fixed no-relevant-content message with an empty
\* source list and no answer generation call was made; the generation model
\* was invoked by the translation step only, and only for a question with
\* Hangul characters.
C12_EmptyRetrievalNoAnswerCall ==
    (qpc = "done" /\ EmptyRetrieval)
        => /\ qresp = NoContentResponse
           /\ QCalls("generate") = {}
           /\ \A i \in GenerationModelCalls :
                qlog[i].op = "translate" /\ hasKorean(qbody.message)

C12_Witness ==
    /\ qpc = "done"
    /\ EmptyRetrieval
    /\ qresp = NoContentResponse
    /\ QCalls("translate") # {}

\* The calls withRetry wrapped
Wrapped == QCalls("translate") \cup QCalls("embed") \cup QCalls("generate")

\* C13: withRetry invokes the wrapped call at most maxRetries (3) times; an
\* attempt after the first is made only after the attempt before it failed
\* with a rate limit and after a wait of baseDelay * 2^attempt (1 s, then
\* 2 s); a failure that is no rate limit is thrown at once, unchanged.
C13_RetryOnlyOnRateLimit ==
    /\ \A op \in {"translate", "embed", "generate"} :
         Cardinality(QCalls(op)) <= maxRetries
    /\ \A i \in Wrapped :
         /\ qlog[i].attempt < maxRetries
         /\ qlog[i].attempt > 0 =>
              /\ i > 2
              /\ qlog[i - 1] = [ev |-> "delay", ms |-> baseDelay * 2 ^ (qlog[i].attempt - 1)]
              /\ qlog[i - 2].ev = "call"
              /\ qlog[i - 2].op = qlog[i].op
              /\ qlog[i - 2].attempt = qlog[i].attempt - 1
              /\ RateLimited(i - 2)
         /\ (qlog[i].out # Resolved /\ ~RateLimited(i)) =>
              /\ i < Len(qlog)
              /\ qlog[i + 1] = [ev |-> "throw", err |-> qlog[i].out]

C13_Witness ==
    /\ \E i \in Wrapped :
         qlog[i].attempt = 2 /\ qlog[i - 1] = [ev |-> "delay", ms |-> 2000]
    /\ \E i \in Wrapped : qlog[i].out = Upstream

\* C14: when every attempt of withRetry failed with a rate limit, the error
\* withRetry throws after the last attempt is the rate limit error of that
\* attempt itself, not another error.
C14_SurfacedErrorIsRateLimit ==
    \A i \in Wrapped :
        (qlog[i].attempt = maxRetries - 1 /\ RateLimited(i) /\ Len(qlog) >= i + 2)
            => /\ qlog[i + 2].ev = "throw"
               /\ qlog[i + 2].err = qlog[i].out
               /\ qlog[i + 2].err \in RateLimitErrors

\* The request carries a message that is empty or made of blanks only.
BlankMessage ==
    /\ "message" \in DOMAIN qbody
    /\ \A i \in 1..Len(qbody.message) : qbody.message[i] = Blank

\* C15: a request whose message is empty or whitespace-only is answered
\* with status 400 before any I/O: no datastore or model client has been
\* created and no translation, embedding, search or generation call made.
C15_BlankMessageRejected ==
    BlankMessage
        => /\ qpc = "done"
           /\ qresp = [status |-> 400, error |-> "Message is required"]
           /\ qclients = FALSE
           /\ qlog = <<>>

C15_Witness ==
    /\ "message" \in DOMAIN qbody
    /\ qbody.message = <<Blank, Blank>>
    /\ "status" \in DOMAIN qresp
    /\ qresp.status = 400

\* The throws of the translation step: those whose nearest call before them
\* is a translation call.
TranslateThrows ==
    {i \in 1..Len(qlog) :
        /\ qlog[i].ev = "throw"
        /\ \E j \in QCalls("translate") :
             j < i /\ \A l \in (j + 1)..(i - 1) : qlog[l].ev # "call"}

\* C16: a failure of the translation, whatever its reason (the retry cap
\* included), does not end the request: the pipeline goes on and embeds the
\* original question; and the prompt of every answer generation call carries
\* the original question.
C16_TranslationFailureFallsBack ==
    /\ \A i \in TranslateThrows :
         /\ Len(qlog) = i => (qpc = "embed" /\ qquery = qbody.message /\ qresp = NoResponse)
         /\ Len(qlog) > i => (qlog[i + 1].ev = "call" /\ qlog[i + 1].op = "embed")
    /\ TranslateThrows # {} =>
         \A j \in QCalls("embed") : qlog[j].arg = qbody.message
    /\ \A j \in QCalls("generate") : qlog[j].arg.question = qbody.message

C16_Witness ==
    /\ \E i \in TranslateThrows : qlog[i].err = MaxRetriesError
    /\ QCalls("embed") # {}
    /\ QCalls("generate") # {}
    /\ qpc = "done"

\* The answer was generated and read, so that POST went on to formatSources.
FormattingReached ==
    /\ qpc = "done"
    /\ \E j \in QCalls("generate") :
         /\ qlog[j].out = Resolved
         /\ j < Len(qlog) => qlog[j + 1] # [ev |-> "throw", err |-> BlockedError]

VideoIds == {qchunks[i].video_id : i \in 1..Len(qchunks)}

\* The chunks of a video that no chunk of the video exceeds in similarity
Best(v) ==
    {i \in 1..Len(qchunks) :
        /\ qchunks[i].video_id = v
        /\ \A k \in 1..Len(qchunks) :
             qchunks[k].video_id = v => qchunks[k].similarity <= qchunks[i].similarity}

\* C17: formatSources returns exactly one source per distinct video id of
\* the retrieved chunks, and the source of a video is taken from a chunk of
\* that video with the highest similarity.
C17_OneSourcePerVideo ==
    FormattingReached
        => /\ "sources" \in DOMAIN qresp
           /\ Len(qresp.sources) = Cardinality(VideoIds)
           /\ \A v \in VideoIds :
                \E n \in 1..Len(qresp.sources) :
                    /\ qresp.sources[n].title = "Talk " \o v
                    /\ \E i \in Best(v) : qresp.sources[n].timestamp = qchunks[i].start_time

\* The names of the retrieved chunks, empty names left out
NamesAt(i) ==
    IF "speaker" \in DOMAIN qchunks[i].metadata /\ qchunks[i].metadata.speaker.name # ""
    THEN {qchunks[i].metadata.speaker.name} ELSE {}

AllNames == UNION {NamesAt(i) : i \in 1..Len(qchunks)}

Occurrences(n) == Cardinality({i \in 1..Len(qchunks) : n \in NamesAt(i)})

FirstAt(n) == CHOOSE i \in 1..Len(qchunks) :
                 n \in NamesAt(i) /\ \A k \in 1..(i - 1) : n \notin NamesAt(k)

MostFrequent == {n \in AllNames : \A m \in AllNames : Occurrences(m) <= Occurrences(n)}

\* C18: the speaker of the answer prompt is the name with the most
\* occurrences across the retrieved chunks; among names tied for the most,
\* the one met first in retrieval order; the generic label when no chunk
\* names a speaker.
C18_DominantSpeaker ==
    \A j \in QCalls("generate") :
        IF AllNames = {} THEN qlog[j].arg.persona = "YC Partner"
        ELSE /\ qlog[j].arg.persona \in MostFrequent
             /\ \A m \in MostFrequent : FirstAt(qlog[j].arg.persona) <= FirstAt(m)

\* The source the claim describes for a chunk that carries a URL value or
\* none
StartsWithHttp(c) ==
    /\ "video_url" \in DOMAIN c
    /\ Len(c.video_url) >= 4
    /\ SubSeq(c.video_url, 1, 4) = <<"h", "t", "t", "p">>

ExpectedUrl(c) ==
    IF StartsWithHttp(c) THEN c.video_url
    ELSE <<"https://www.youtube.com/watch?v=", c.video_id, "&", "t", "=">>
         \o Digits(c.start_time \div 10)

Describes(src, c) ==
    /\ src.title = c.video_title
    /\ src.url = ExpectedUrl(c)
    /\ src.timestamp = c.start_time
    /\ IF "speaker" \in DOMAIN c.metadata
       THEN "speaker" \in DOMAIN src /\ src.speaker = c.metadata.speaker.name
       ELSE "speaker" \notin DOMAIN src

\* C19: formatting does not fail, and every source returned is {title, url,
\* timestamp, speaker} of a retrieved chunk with timestamp its start time
\* and, when the chunk carries no absolute URL or no URL value at all, url
\* built from the video id and the floor of the start time.
C19_SourceShape ==
    FormattingReached
        => /\ "sources" \in DOMAIN qresp
           /\ \A i \in 1..Len(qchunks) :
                (i \in Best(qchunks[i].video_id) /\ Cardinality(Best(qchunks[i].video_id)) = 1)
                    => \E n \in 1..Len(qresp.sources) : Describes(qresp.sources[n], qchunks[i])
           /\ \A n \in 1..Len(qresp.sources) :
                \E i \in 1..Len(qchunks) : Describes(qresp.sources[n], qchunks[i])


\* ------------------------------------------------------------------------
\* The chunkers on their own: chunkTranscript of ingest_files.ts and of
\* ingest_yc.ts, each run once on a segment list.
\* ------------------------------------------------------------------------
SegmentTexts == {<<>>, <<Blank, 1>>, Rep(2, 5)}

FileSegments == {Seg(time, text) : time \in {<<0, 7>>, <<1, 2, 3>>}, text \in SegmentTexts}

YcSegments == {[text |-> text, offset |-> t[1], duration |-> t[2]] :
                  text \in SegmentTexts, t \in {<<0, 2000>>, <<1500, 500>>}}

\* A chunker is given a list of at most MaxSegs segments.
ChunkerInit ==
    /\ store = EmptyBag
    /\ SeqIdle
    /\ ConcIdle
    /\ QueryIdle
    /\ ChatIdle
    /\ EmbedIdle
    /\ NormIdle
    /\ TimeIdle
    /\ kout = NotChunked
    /\ \E n \in 0..MaxSegs :
         \/ \E segs \in [1..n -> FileSegments] :
              kin = [script |-> "ingest_files", segments |-> segs]
         \/ \E segs \in [1..n -> YcSegments] :
              kin = [script |-> "ingest_yc", segments |-> segs]

\* chunkTranscript of ingest_files.ts runs on the segment list.
ChunkFile ==
    /\ kout = NotChunked
    /\ kin.script = "ingest_files"
    /\ kout' = [chunks |-> chunkTranscript(kin.segments)]
    /\ UNCHANGED kin
    /\ UNCHANGED notChunker

\* chunkTranscript of ingest_yc.ts runs on the segment list.
ChunkYc ==
    /\ kout = NotChunked
    /\ kin.script = "ingest_yc"
    /\ kout' = [chunks |-> YcChunkTranscript(kin.segments)]
    /\ UNCHANGED kin
    /\ UNCHANGED notChunker

ChunkerNext ==
    \/ ChunkFile
    \/ ChunkYc

SpecChunker == ChunkerInit /\ [][ChunkerNext]_vars

\* ------------------------------------------------------------------------
\* Properties of the chunkers (SpecChunker)
\* ------------------------------------------------------------------------
Chunked == "chunks" \in DOMAIN kout

\* C20: the chunks of a transcript carry chunkIndex 0, 1, ..., N-1 in the
\* order they were emitted, starting at 0 for every transcript; and a
\* segment list that is not empty yields at least one chunk.
C20_ChunkIndexContiguous ==
    Chunked
        => /\ \A i \in 1..Len(kout.chunks) : kout.chunks[i].chunkIndex = i - 1
           /\ kin.segments # <<>> => Len(kout.chunks) >= 1

C20_Witness ==
    /\ Chunked
    /\ kin.script = "ingest_files"
    /\ Len(kin.segments) = 1
    /\ Len(kout.chunks) = 1

\* C21: for any segment list, also one whose times do not ascend, every
\* chunk has startTime <= endTime and the chunks are emitted in
\* non-decreasing startTime.
C21_ChunkTimesOrdered ==
    Chunked
        => /\ \A i \in 1..Len(kout.chunks) :
                kout.chunks[i].startTime <= kout.chunks[i].endTime
           /\ \A i \in 1..Len(kout.chunks), j \in 1..Len(kout.chunks) :
                i < j => kout.chunks[i].startTime <= kout.chunks[j].startTime

\* The texts of the segments as the chunkers read them
SegmentTextsOf(segments) == [i \in 1..Len(segments) |-> Trim(segments[i].text)]

\* What can stand at the head of a chunk as overlap: nothing, or an end of
\* the content of the chunk before it.
LeadingOverlaps(before) ==
    IF before = <<>> THEN {<<>>}
    ELSE {<<>>} \cup {<<SubSeq(before[1], k, Len(before[1]))>> : k \in 1..Len(before[1])}

\* The contents, each without a leading overlap, are the texts: every chunk
\* is an overlap followed by one or more whole texts, and the texts of the
\* chunks taken in order are all the texts in order.
RECURSIVE Reconstructs(_, _, _)
Reconstructs(cs, texts, before) ==
    IF cs = <<>> THEN texts = <<>>
    ELSE \E n \in 1..Len(texts) :
            /\ \E overlap \in LeadingOverlaps(before) :
                 Head(cs).content = Join(overlap \o SubSeq(texts, 1, n))
            /\ Reconstructs(Tail(cs), SubSeq(texts, n + 1, Len(texts)), <<Head(cs).content>>)

\* C22: the contents of the chunks in chunkIndex order, each without its
\* leading overlap, are the segment texts in their order: every segment
\* stands whole in exactly one chunk.
C22_ChunksReconstructText ==
    Chunked => Reconstructs(kout.chunks, SegmentTextsOf(kin.segments), <<>>)

C22_Witness ==
    /\ Chunked
    /\ kin.script = "ingest_files"
    /\ Len(kin.segments) = 4
    /\ Len(kout.chunks) = 3
    /\ \E i \in 1..4 : kin.segments[i].text = <<Blank, 1>>

\* The loop state of the chunker after its first i segments
LoopStateAfter(i) ==
    IF kin.script = "ingest_files"
    THEN ChunkLoop(ChunkInit(kin.segments), SubSeq(kin.segments, 1, i))
    ELSE YcChunkLoop(YcChunkInit(kin.segments), SubSeq(kin.segments, 1, i))

\* The iteration on segment i closed a chunk.
ClosedAt(i) == LoopStateAfter(i).chunkIndex = LoopStateAfter(i - 1).chunkIndex + 1

\* The overlap text with which the chunk opened at segment i was seeded:
\* after the iteration currentChunk is the seed, if any, and the segment.
SeedAt(i) ==
    LET currentChunk == LoopStateAfter(i).currentChunk
    IN  IF Len(currentChunk) = 2 THEN currentChunk[1] ELSE <<>>

overlapSegmentCount == 2

\* C23: when a chunk is closed, the seed of the next chunk is the text of
\* the last one or two source segments before it, verbatim; the overlap
\* never holds more than overlapSegmentCount source segments.
C23_SeedIsLastTwoSegments ==
    Chunked
        => \A i \in 2..Len(kin.segments) :
             ClosedAt(i)
                 => \E k \in 1..Min(overlapSegmentCount, i - 1) :
                      SeedAt(i) = Join(SubSeq(SegmentTextsOf(kin.segments), i - k, i - 1))

\* The number of segments pushed into the buffer of the chunk with index c:
\* the iterations that ended with chunkIndex at c
AppendedTo(c) ==
    Cardinality({i \in 1..Len(kin.segments) : LoopStateAfter(i).chunkIndex = c})

\* C28: a chunk to which two or more segments were appended after its
\* overlap seed has a content no longer than the character budget.
C28_MultiSegmentChunkWithinBudget ==
    Chunked
        => \A i \in 1..Len(kout.chunks) :
             AppendedTo(kout.chunks[i].chunkIndex) >= 2
                 => Len(kout.chunks[i].content) <= targetChars

\* ------------------------------------------------------------------------
\* parseTimeToSeconds on strings (SpecTime).  A time string is a sequence of
\* characters; the strings given are those over TimeChars of at most
\* MaxTimeLen characters and the two of the documentation.
\* ------------------------------------------------------------------------
MaxTimeLen == 4

TimeChars == {"1", "2", ":", "a"}

DigitChars == <<"0", "1", "2", "3", "4", "5", "6", "7", "8", "9">>

IsDigit(c) == \E d \in 1..10 : DigitChars[d] = c

DigitValue(c) == (CHOOSE d \in 1..10 : DigitChars[d] = c) - 1

\* time.split(":")
RECURSIVE Split(_)
Split(str) ==
    IF \A i \in 1..Len(str) : str[i] # ":" THEN <<str>>
    ELSE LET at == CHOOSE i \in 1..Len(str) :
                      str[i] = ":" /\ \A j \in 1..(i - 1) : str[j] # ":"
         IN  <<SubSeq(str, 1, at - 1)>> \o Split(SubSeq(str, at + 1, Len(str)))

NaN == [nan |-> TRUE]

Num(n) == [value |-> n]

RECURSIVE Decimal(_)
Decimal(str) ==
    IF str = <<>> THEN 0
    ELSE 10 * Decimal(SubSeq(str, 1, Len(str) - 1)) + DigitValue(str[Len(str)])

\* Number(part) for a part made of digits and letters: the empty string is
\* 0, a string of digits its decimal value, anything else NaN.
Number(part) ==
    IF \A i \in 1..Len(part) : IsDigit(part[i]) THEN Num(Decimal(part)) ELSE NaN

\* parseTimeToSeconds of a string: the sums of the two- and three-part
\* branches are NaN as soon as one part is.
parseTimeToSecondsOfString(time) ==
    LET parts == [i \in 1..Len(Split(time)) |-> Number(Split(time)[i])]
    IN  IF Len(parts) \in {2, 3} /\ \E i \in DOMAIN parts : parts[i] = NaN
        THEN NaN
        ELSE Num(parseTimeToSeconds(
                 [i \in DOMAIN parts |-> IF parts[i] = NaN THEN 0 ELSE parts[i].value]))

DocumentedTimes == {<<"1", ":", "2", "3">>, <<"1", ":", "0", "2", ":", "0", "3">>}

TimeInit ==
    /\ store = EmptyBag
    /\ SeqIdle
    /\ ConcIdle
    /\ QueryIdle
    /\ ChatIdle
    /\ EmbedIdle
    /\ NormIdle
    /\ ChunkerIdle
    /\ tout = NotParsed
    /\ \/ \E n \in 0..MaxTimeLen : \E str \in [1..n -> TimeChars] : tin = [string |-> str]
       \/ \E str \in DocumentedTimes : tin = [string |-> str]

\* parseTimeToSeconds is called on the string.
ParseTime ==
    /\ tout = NotParsed
    /\ tout' = parseTimeToSecondsOfString(tin.string)
    /\ UNCHANGED tin
    /\ UNCHANGED notTime

TimeNext == ParseTime

SpecTime == TimeInit /\ [][TimeNext]_vars

Parsed == tout # NotParsed

\* A time string as documented, minutes:seconds or hours:minutes:seconds:
\* two or three parts, each one or more digits
WellFormedTime(time) ==
    /\ Len(Split(time)) \in {2, 3}
    /\ \A i \in 1..Len(Split(time)) :
         /\ Split(time)[i] # <<>>
         /\ \A j \in 1..Len(Split(time)[i]) : IsDigit(Split(time)[i][j])

\* C27: "1:23" is 83 seconds and "1:02:03" is 3723 seconds; a malformed
\* time string yields 0, never another value.
C27_TimeToSeconds ==
    Parsed
        => /\ tin.string = <<"1", ":", "2", "3">> => tout = Num(83)
           /\ tin.string = <<"1", ":", "0", "2", ":", "0", "3">> => tout = Num(3723)
           /\ ~WellFormedTime(tin.string) => tout = Num(0)

\* ------------------------------------------------------------------------
\* The normalizer of the converter (SpecNorm): parseTranscriptText and
\* processHeader of convert_txt.ts.  A line is a sequence of characters.
\* ------------------------------------------------------------------------
MaxLines == 4

Space == " "

RECURSIVE StripLeft(_)
StripLeft(str) ==
    IF str # <<>> /\ Head(str) = Space THEN StripLeft(Tail(str)) ELSE str

RECURSIVE StripRight(_)
StripRight(str) ==
    IF str # <<>> /\ str[Len(str)] = Space
    THEN StripRight(SubSeq(str, 1, Len(str) - 1))
    ELSE str

\* rawLine.trim()
TrimLine(str) == StripRight(StripLeft(str))

\* str.indexOf(c), counted from 1; 0 when c is not in str
IndexOf(str, c) ==
    IF \E i \in 1..Len(str) : str[i] = c
    THEN CHOOSE i \in 1..Len(str) : str[i] = c /\ \A j \in 1..(i - 1) : str[j] # c
    ELSE 0

\* str.split(c)
RECURSIVE SplitOn(_, _)
SplitOn(str, c) ==
    IF IndexOf(str, c) = 0 THEN <<str>>
    ELSE <<SubSeq(str, 1, IndexOf(str, c) - 1)>>
             \o SplitOn(SubSeq(str, IndexOf(str, c) + 1, Len(str)), c)

\* strs.join(" ")
RECURSIVE JoinLines(_)
JoinLines(strs) ==
    IF strs = <<>> THEN <<>>
    ELSE IF Len(strs) = 1 THEN strs[1]
    ELSE strs[1] \o <<Space>> \o JoinLines(Tail(strs))

AllDigits(str, lo, hi) ==
    /\ Len(str) \in lo..hi
    /\ \A i \in 1..Len(str) : IsDigit(str[i])

\* timePattern /^(\d{1,2}:\d{2}(?::\d{2})?)$/
MatchesTimePattern(str) ==
    LET parts == SplitOn(str, ":")
    IN  /\ Len(parts) \in {2, 3}
        /\ AllDigits(parts[1], 1, 2)
        /\ \A i \in 2..Len(parts) : AllDigits(parts[i], 2, 2)

\* inlinePattern /^(\d{1,2}:\d{2}(?::\d{2})?)\s+(.+)$/ on a trimmed line:
\* what stands before the first blank is a timestamp, and text follows.
MatchesInlinePattern(str) ==
    /\ IndexOf(str, Space) > 0
    /\ MatchesTimePattern(SubSeq(str, 1, IndexOf(str, Space) - 1))
    /\ StripLeft(SubSeq(str, IndexOf(str, Space), Len(str))) # <<>>

InlineTime(str) == SubSeq(str, 1, IndexOf(str, Space) - 1)

InlineText(str) == StripLeft(SubSeq(str, IndexOf(str, Space), Len(str)))

Delimiter == <<"-", "-", "-">>

LowerLetters == <<"a", "b", "c", "d", "e", "f", "g", "h", "i", "j", "k", "l", "m",
                  "n", "o", "p", "q", "r", "s", "t", "u", "v", "w", "x", "y", "z">>

UpperLetters == <<"A", "B", "C", "D", "E", "F", "G", "H", "I", "J", "K", "L", "M",
                  "N", "O", "P", "Q", "R", "S", "T", "U", "V", "W", "X", "Y", "Z">>

IsLetter(c) == \E i \in 1..26 : LowerLetters[i] = c \/ UpperLetters[i] = c

\* c.toLowerCase()
LowerChar(c) ==
    IF \E i \in 1..26 : UpperLetters[i] = c
    THEN LowerLetters[CHOOSE i \in 1..26 : UpperLetters[i] = c]
    ELSE c

ToLowerCase(str) == [i \in 1..Len(str) |-> LowerChar(str[i])]

\* /^[a-z_]+\s*:/i
IsKeyValueLine(str) ==
    \E k \in 1..Len(str) :
        /\ \A i \in 1..k : IsLetter(str[i]) \/ str[i] = "_"
        /\ StripLeft(SubSeq(str, k + 1, Len(str))) # <<>>
        /\ Head(StripLeft(SubSeq(str, k + 1, Len(str)))) = ":"

\* The keys of the switch of processHeader and the field each one sets
HeaderKeys ==
    { <<<<"v", "i", "d", "e", "o", "_", "i", "d">>, "video_id">>,
      <<<<"t", "i", "t", "l", "e">>, "title">>,
      <<<<"s", "p", "e", "a", "k", "e", "r", "_", "n", "a", "m", "e">>, "speaker_name">>,
      <<<<"s", "p", "e", "a", "k", "e", "r">>, "speaker_name">>,
      <<<<"s", "p", "e", "a", "k", "e", "r", "_", "t", "i", "t", "l", "e">>, "speaker_title">>,
      <<<<"s", "p", "e", "a", "k", "e", "r", "_", "b", "a", "c", "k", "g", "r", "o", "u", "n", "d">>,
        "speaker_background">>,
      <<<<"b", "a", "c", "k", "g", "r", "o", "u", "n", "d">>, "speaker_background">>,
      <<<<"d", "e", "s", "c", "r", "i", "p", "t", "i", "o", "n">>, "description">>,
      <<<<"t", "o", "p", "i", "c", "s">>, "topics">> }

\* metadata with one field set
SetField(m, field, value) ==
    [f \in DOMAIN m \cup {field} |-> IF f = field THEN value ELSE m[f]]

\* One line of a key:value header
KeyValueLine(m, line) ==
    LET colonIndex == IndexOf(line, ":")
        key == ToLowerCase(TrimLine(SubSeq(line, 1, colonIndex - 1)))
        value == TrimLine(SubSeq(line, colonIndex + 1, Len(line)))
    IN  IF colonIndex > 1 /\ \E hk \in HeaderKeys : hk[1] = key
        THEN LET field == (CHOOSE hk \in HeaderKeys : hk[1] = key)[2]
             IN  IF field = "topics"
                 THEN SetField(m, field,
                               [i \in 1..Len(SplitOn(value, ",")) |->
                                   TrimLine(SplitOn(value, ",")[i])])
                 ELSE SetField(m, field, value)
        ELSE m

RECURSIVE KeyValueLines(_, _)
KeyValueLines(m, lines) ==
    IF lines = <<>> THEN m
    ELSE KeyValueLines(KeyValueLine(m, Head(lines)), Tail(lines))

NonEmpty(str) == str # <<>>

\* A free-form header: the first line that is not empty is the title, the
\* others joined are the description.  None of the lines given holds a word
\* of the three speaker patterns, so none of them matches.
FreeForm(m, lines) ==
    LET nonEmptyLines == SelectSeq(lines, NonEmpty)
        m1 == IF Len(nonEmptyLines) > 0 THEN SetField(m, "title", nonEmptyLines[1]) ELSE m
    IN  IF Len(nonEmptyLines) > 1
        THEN SetField(m1, "description", TrimLine(JoinLines(Tail(nonEmptyLines))))
        ELSE m1

processHeader(lines, m) ==
    IF lines = <<>> THEN m
    ELSE IF SelectSeq(lines, NonEmpty) # <<>> /\ IsKeyValueLine(SelectSeq(lines, NonEmpty)[1])
    THEN KeyValueLines(m, lines)
    ELSE FreeForm(m, lines)

\* The body scan that keeps the pending timestamp after attaching a text
BodyLineKeepsPending(pending, line) ==
    IF MatchesInlinePattern(line)
    THEN [emit |-> <<[time |-> InlineTime(line), text |-> InlineText(line)]>>,
          pending |-> pending]
    ELSE IF MatchesTimePattern(line)
    THEN [emit |-> <<>>, pending |-> line]
    ELSE IF pending # NullTime
    THEN [emit |-> <<[time |-> pending, text |-> line]>>, pending |-> pending]
    ELSE [emit |-> <<>>, pending |-> pending]

\* The body scan of one line that is not empty: the segments it pushes and
\* currentTime after it
BodyLine(pending, line) ==
    IF MatchesInlinePattern(line)
    THEN [emit |-> <<[time |-> InlineTime(line), text |-> InlineText(line)]>>,
          pending |-> pending]
    ELSE IF MatchesTimePattern(line)
    THEN [emit |-> <<>>, pending |-> line]
    ELSE IF pending # NullTime
    THEN [emit |-> <<[time |-> pending, text |-> line]>>, pending |-> NullTime]
    ELSE [emit |-> <<>>, pending |-> pending]

\* The raw lines a content is made of
RawLines ==
    { Delimiter,
      <<>>,
      <<"0", ":", "0", "7">>,
      <<Space, "1", ":", "0", "2", ":", "0", "3">>,
      <<"0", ":", "0", "7", Space, Space, "a", Space, "b">>,
      <<"a">>,
      <<"T", "i", "t", "l", "e", ":", Space, "a">>,
      <<"t", "o", "p", "i", "c", "s", Space, ":", "a", ",", Space, "b">> }

NormInit ==
    /\ store = EmptyBag
    /\ SeqIdle
    /\ ConcIdle
    /\ QueryIdle
    /\ ChatIdle
    /\ EmbedIdle
    /\ ChunkerIdle
    /\ TimeIdle
    /\ nread = 0
    /\ inHeader = FALSE
    /\ headerEnded = FALSE
    /\ currentTime = NullTime
    /\ headerLines = <<>>
    /\ nsegments = <<>>
    /\ nmetadata = EmptyMetadata
    /\ \E n \in 1..MaxLines : \E ls \in [1..n -> RawLines] : nlines = ls

\* One iteration of the for loop of parseTranscriptText
ScanLine ==
    /\ nread < Len(nlines)
    /\ nread' = nread + 1
    /\ LET line == TrimLine(nlines[nread + 1])
       IN  IF line = Delimiter /\ ~inHeader /\ ~headerEnded
           THEN /\ inHeader' = TRUE
                /\ UNCHANGED <<headerEnded, currentTime, headerLines, nsegments, nmetadata>>
           ELSE IF line = Delimiter /\ inHeader
           THEN /\ inHeader' = FALSE
                /\ headerEnded' = TRUE
                /\ nmetadata' = processHeader(headerLines, nmetadata)
                /\ UNCHANGED <<currentTime, headerLines, nsegments>>
           ELSE IF inHeader
           THEN /\ headerLines' = Append(headerLines, line)
                /\ UNCHANGED <<inHeader, headerEnded, currentTime, nsegments, nmetadata>>
           ELSE IF line = <<>>
           THEN UNCHANGED <<inHeader, headerEnded, currentTime, headerLines,
                            nsegments, nmetadata>>
           ELSE /\ nsegments' = nsegments \o BodyLine(currentTime, line).emit
                /\ currentTime' = BodyLine(currentTime, line).pending
                /\ UNCHANGED <<inHeader, headerEnded, headerLines, nmetadata>>
    /\ UNCHANGED nlines
    /\ UNCHANGED notNorm

NormNext == ScanLine

SpecNorm == NormInit /\ [][NormNext]_vars

\* ------------------------------------------------------------------------
\* Properties of the normalizer (SpecNorm)
\* ------------------------------------------------------------------------
\* The line the loop is about to read goes through the body scan.
BodyScanned ==
    /\ nread < Len(nlines)
    /\ ~inHeader
    /\ TrimLine(nlines[nread + 1]) # <<>>
    /\ TrimLine(nlines[nread + 1]) = Delimiter => headerEnded

NextLine == TrimLine(nlines[nread + 1])

BareTimestamp(line) == MatchesTimePattern(line)

TimestampAndText(line) == MatchesInlinePattern(line)

PlainText(line) == ~MatchesTimePattern(line) /\ ~MatchesInlinePattern(line)

\* C25: in the body scan a bare timestamp line sets the pending time and
\* emits no segment; a timestamp-plus-text line emits a segment at once; a
\* plain text line emits one segment, under the pending timestamp, only when
\* one is pending, and consumes it, so that at most one text line is
\* attached to a bare timestamp; a plain text line with no timestamp pending
\* emits nothing.
C25_BodyScan ==
    [][(BodyScanned /\ nread' = nread + 1)
          => /\ BareTimestamp(NextLine)
                 => nsegments' = nsegments /\ currentTime' = NextLine
             /\ TimestampAndText(NextLine)
                 => /\ Len(nsegments') = Len(nsegments) + 1
                    /\ SubSeq(nsegments', 1, Len(nsegments)) = nsegments
                    /\ MatchesTimePattern(nsegments'[Len(nsegments')].time)
                    /\ nsegments'[Len(nsegments')].text # <<>>
             /\ (PlainText(NextLine) /\ currentTime # NullTime)
                 => /\ nsegments' = Append(nsegments, [time |-> currentTime, text |-> NextLine])
                    /\ currentTime' = NullTime
             /\ (PlainText(NextLine) /\ currentTime = NullTime)
                 => nsegments' = nsegments /\ currentTime' = NullTime]_vars

\* A bare timestamp and two plain text lines have been read: one segment.
C25_Witness ==
    /\ nread = 3
    /\ BareTimestamp(TrimLine(nlines[1]))
    /\ PlainText(TrimLine(nlines[2])) /\ TrimLine(nlines[2]) # <<>>
    /\ PlainText(TrimLine(nlines[3])) /\ TrimLine(nlines[3]) # <<>>
    /\ TrimLine(nlines[2]) # Delimiter
    /\ TrimLine(nlines[3]) # Delimiter
    /\ Len(nsegments) = 1
    /\ currentTime = NullTime

\* The places of the delimiter lines of the content, in order
DelimiterLines ==
    SelectSeq([i \in 1..Len(nlines) |-> i],
              LAMBDA i : TrimLine(nlines[i]) = Delimiter)

\* C26: content before the first delimiter line is ignored: a line that
\* precedes the first delimiter produces no segment and no metadata, and
\* only the lines between the first and the second delimiter are read as
\* the header.
C26_ContentBeforeHeaderIgnored ==
    [][nread' = nread + 1
          => /\ (DelimiterLines # <<>> /\ nread + 1 < DelimiterLines[1])
                 => nsegments' = nsegments /\ nmetadata' = nmetadata
             /\ headerLines' # headerLines
                 => /\ DelimiterLines # <<>>
                    /\ DelimiterLines[1] < nread + 1
                    /\ Len(DelimiterLines) >= 2 => nread + 1 < DelimiterLines[2]]_vars

\* ------------------------------------------------------------------------
\* Embedding a list of texts (SpecEmbed): generateEmbeddings of lib/gemini.ts,
\* which awaits the calls of a batch together, and
\* generateEmbeddingsWithDelay of the ingestion scripts, which awaits one
\* call at a time.
\* ------------------------------------------------------------------------
MaxTexts == 4

\* batchSize of generateEmbeddings
embedBatchSize == 2

EmbedTexts == {<<1>>, <<2>>}

\* The number of calls awaited together
AwaitedTogether == IF emode = "generateEmbeddings" THEN embedBatchSize ELSE 1

\* texts.slice(i, i + batchSize)
EmbedBatch == SubSeq(etexts, ei + 1, Min(ei + AwaitedTogether, Len(etexts)))

Pending == [pending |-> TRUE]

\* A Promise.all that keeps the values in the order they arrive
CollectInArrivalOrder(results, k, vector) ==
    LET free == CHOOSE j \in 1..Len(results) :
                    results[j] = Pending /\ \A h \in 1..(j - 1) : results[h] # Pending
    IN  [results EXCEPT ![free] = vector]

\* Promise.all keeps the value of the k-th promise at place k.
Collect(results, k, vector) == [results EXCEPT ![k] = vector]

EmbedInit ==
    /\ store = EmptyBag
    /\ SeqIdle
    /\ ConcIdle
    /\ QueryIdle
    /\ ChatIdle
    /\ ChunkerIdle
    /\ TimeIdle
    /\ NormIdle
    /\ emode \in {"generateEmbeddings", "generateEmbeddingsWithDelay"}
    /\ \E n \in 0..MaxTexts : \E ts \in [1..n -> EmbedTexts] : etexts = ts
    /\ epc = "loop"
    /\ ei = 0
    /\ eresults = <<>>
    /\ earrived = <<>>
    /\ eout = <<>>

\* The head of the for loop with texts left: the embed calls of the next
\* batch are made, one after the other, and awaited.
IssueCalls ==
    /\ epc = "loop"
    /\ ei < Len(etexts)
    /\ eresults' = [k \in 1..Len(EmbedBatch) |-> Pending]
    /\ epc' = "await"
    /\ UNCHANGED <<emode, etexts, ei, earrived, eout>>
    /\ UNCHANGED notEmbed

\* One of the calls under way resolves with the vector of its text.
CallResolves ==
    /\ epc = "await"
    /\ \E k \in 1..Len(eresults) :
         /\ eresults[k] = Pending
         /\ eresults' = Collect(eresults, k, generateEmbedding(EmbedBatch[k]))
         /\ earrived' = Append(earrived, ei + k)
    /\ UNCHANGED <<emode, etexts, epc, ei, eout>>
    /\ UNCHANGED notEmbed

\* One of the calls under way rejects: the await throws and the function
\* with it.
CallRejects ==
    /\ epc = "await"
    /\ \E k \in 1..Len(eresults) : eresults[k] = Pending
    /\ epc' = "threw"
    /\ UNCHANGED <<emode, etexts, ei, eresults, earrived, eout>>
    /\ UNCHANGED notEmbed

\* Every call awaited has resolved: the vectors are pushed, and a delay
\* follows unless these were the last texts.
PushResults ==
    /\ epc = "await"
    /\ \A k \in 1..Len(eresults) : eresults[k] # Pending
    /\ eout' = eout \o eresults
    /\ eresults' = <<>>
    /\ IF ei + AwaitedTogether < Len(etexts)
       THEN epc' = "delay" /\ ei' = ei
       ELSE epc' = "loop" /\ ei' = ei + AwaitedTogether
    /\ UNCHANGED <<emode, etexts, earrived>>
    /\ UNCHANGED notEmbed

\* The delay is over; the loop goes on.
DelayOver ==
    /\ epc = "delay"
    /\ epc' = "loop"
    /\ ei' = ei + AwaitedTogether
    /\ UNCHANGED <<emode, etexts, eresults, earrived, eout>>
    /\ UNCHANGED notEmbed

\* The loop is over: embeddings is returned.
ReturnEmbeddings ==
    /\ epc = "loop"
    /\ ei >= Len(etexts)
    /\ epc' = "returned"
    /\ UNCHANGED <<emode, etexts, ei, eresults, earrived, eout>>
    /\ UNCHANGED notEmbed

EmbedNext ==
    \/ IssueCalls
    \/ CallResolves
    \/ CallRejects
    \/ PushResults
    \/ DelayOver
    \/ ReturnEmbeddings

SpecEmbed == EmbedInit /\ [][EmbedNext]_vars

\* C24: the list returned holds one vector per text, in the order of the
\* texts: the vector at place i is the embedding of the text at place i,
\* also when the calls of a batch resolved in another order than they were
\* made.
C24_OneVectorPerTextInOrder ==
    epc = "returned"
        => /\ Len(eout) = Len(etexts)
           /\ \A i \in 1..Len(etexts) : eout[i] = generateEmbedding(etexts[i])

\* Two calls of one batch, on different texts, resolved in the reverse order.
C24_Witness ==
    /\ epc = "returned"
    /\ emode = "generateEmbeddings"
    /\ \E i \in 1..Len(earrived), j \in 1..Len(earrived) :
         /\ i < j
         /\ earrived[i] > earrived[j]
         /\ etexts[earrived[i]] # etexts[earrived[j]]

\* ------------------------------------------------------------------------
\* The home page and its Chat component (SpecChat).  A click, a change of
\* the input and a submit of the form are handled one at a time: the state
\* updates of the handler are rendered, and the effects of that render run,
\* before the next of them is handled.  State updates made by an effect or
\* after an await are rendered later, and until then the handlers and the
\* effect are those of the last render, closed over its values.  The share
\* and clear buttons and the stored history are left out.
\* ------------------------------------------------------------------------
MaxSubmissions == 3

Questions == {<<"a">>, <<"b">>}

Typed == {<<Space>>, <<"a">>}

\* submitQuestion of the last render: isLoading is the value that render
\* closed over.
submitQuestion(s, question) ==
    IF TrimLine(question) = <<>> \/ s.rendered.isLoading THEN s
    ELSE [s EXCEPT !.messages = Append(@, [role |-> "user", content |-> TrimLine(question)]),
                   !.inputValue = <<>>,
                   !.isLoading = TRUE,
                   !.inFlight = Append(@, TrimLine(question)),
                   !.accepted = @ + 1]

\* The auto-submit effect of the last render
AutoSubmitEffect(s) ==
    LET r == s.rendered
        fire == /\ r.autoSubmit
                /\ ~s.prevAutoSubmitRef
                /\ TrimLine(r.inputValue) # <<>>
                /\ ~r.isLoading
        s1 == IF fire
              THEN [submitQuestion(s, r.inputValue) EXCEPT !.autoSubmit = FALSE]
              ELSE s
    IN  [s1 EXCEPT !.prevAutoSubmitRef = r.autoSubmit, !.effectPending = FALSE]

Current(s) ==
    [inputValue |-> s.inputValue, autoSubmit |-> s.autoSubmit, isLoading |-> s.isLoading]

\* A render: the effect is due when one of its dependencies has changed.
Commit(s) ==
    [s EXCEPT !.rendered = Current(s),
              !.effectPending = @ \/ Current(s) # s.rendered]

\* After a handler: an effect still due runs, the updates are rendered and
\* the effect of that render runs.
AfterEvent(s) ==
    LET s1 == IF s.effectPending THEN AutoSubmitEffect(s) ELSE s
        s2 == Commit(s1)
    IN  IF s2.effectPending THEN AutoSubmitEffect(s2) ELSE s2

ChatInit ==
    /\ store = EmptyBag
    /\ SeqIdle
    /\ ConcIdle
    /\ QueryIdle
    /\ ChunkerIdle
    /\ TimeIdle
    /\ NormIdle
    /\ EmbedIdle
    /\ ui = MountedUi

\* handleQuestionSelect: a question of the topic list is clicked.
QuestionSelect ==
    /\ ui.accepted < MaxSubmissions
    /\ \E q \in Questions :
         ui' = AfterEvent([ui EXCEPT !.inputValue = q, !.autoSubmit = TRUE])
    /\ UNCHANGED notChat

\* onChange of the input, which is disabled while the render shows loading
InputChange ==
    /\ ~ui.rendered.isLoading
    /\ \E v \in Typed : ui' = AfterEvent([ui EXCEPT !.inputValue = v])
    /\ UNCHANGED notChat

\* handleSubmit: the form is submitted.
HandleSubmit ==
    /\ ui.accepted < MaxSubmissions
    /\ ui' = AfterEvent(submitQuestion(ui, ui.rendered.inputValue))
    /\ UNCHANGED notChat

\* The fetch of a request settles: the answer, or the error text, is
\* appended and isLoading is set to false.
RequestSettles ==
    /\ \E k \in 1..Len(ui.inFlight), content \in {"answer", "error"} :
         ui' = [ui EXCEPT
                  !.messages = Append(@, [role |-> "assistant", content |-> content]),
                  !.isLoading = FALSE,
                  !.inFlight = SubSeq(@, 1, k - 1) \o SubSeq(@, k + 1, Len(@)),
                  !.settled = @ + 1]
    /\ UNCHANGED notChat

\* The updates made outside a handler are rendered.
Render ==
    /\ Current(ui) # ui.rendered
    /\ ui' = Commit(ui)
    /\ UNCHANGED notChat

\* The effect of such a render runs.
RunEffect ==
    /\ ui.effectPending
    /\ ui.accepted < MaxSubmissions
    /\ ui' = AutoSubmitEffect(ui)
    /\ UNCHANGED notChat

ChatNext ==
    \/ QuestionSelect
    \/ InputChange
    \/ HandleSubmit
    \/ RequestSettles
    \/ Render
    \/ RunEffect

SpecChat == ChatInit /\ [][ChatNext]_vars

\* ------------------------------------------------------------------------
\* Properties of the home page (SpecChat)
\* ------------------------------------------------------------------------
\* Nothing is left to render and no effect is due.
AtRest == Current(ui) = ui.rendered /\ ~ui.effectPending

\* C29: after a question is selected from the topic list autoSubmit
\* returns to false, so that a later selection submits again, also when
\* the selection is made while a request is loading: the page does not
\* come to rest with autoSubmit set, where nothing is left to clear it.
C29_AutoSubmitReturnsToFalse == AtRest => ~ui.autoSubmit

MessagesOf(role) ==
    Cardinality({i \in 1..Len(ui.messages) : ui.messages[i].role = role})

\* C30: at most one request is in flight; every submission taken has
\* appended one user message and every request settled one assistant
\* message; and isLoading is false once no request is left unsettled.
C30_OneRequestInFlight ==
    /\ Len(ui.inFlight) <= 1
    /\ MessagesOf("user") = MessagesOf("assistant") + Len(ui.inFlight)
    /\ ui.inFlight = <<>> => ~ui.isLoading
    /\ ui.inFlight # <<>> => ui.isLoading

====
